---------------------------- MODULE Spec2Model ----------------------------
(* Model of the media attach engine of lianolikus/app:                     *)
(*   src/media_downloader_telethon.py and src/media_downloader_pyrogram.py *)
(* One call of download_media / download_and_attach is one run of the      *)
(* state machine; the transport (download, send_file, send_message) and    *)
(* os.remove are the environment, whose outcomes are chosen per call.      *)
(* The pure functions of src/parser_telethon.py and src/parser_pyrogram.py *)
(* (_merge, _extract_entities, _detect_media) have specifications of their *)
(* own over the same variables: SpecMerge, SpecEntities, SpecDetect.       *)
(* SpecMeta reads the metadata of one message, SpecRegex runs the regex    *)
(* extraction, SpecConcurrent runs download_media for two messages at      *)
(* once, and SpecHandler runs on_new_message of either parser around the   *)
(* attach engine (SpecHandlerFair: every await completes).                 *)
EXTENDS Integers, Sequences, FiniteSets, TLC

VARIABLES
    engine,            \* which of the two modules runs: "telethon" | "pyrogram"
    entry,             \* the function the host called
    message,           \* the platform message handed in
    MAX_DOWNLOAD_SIZE, \* module configuration (environment)
    ATTACH_MODE,
    KEEP_FILES,
    attach_mode,       \* arguments of the call
    size_limit,
    parsed_html,
    pc,                \* position of the coroutine
    result,            \* the MediaResult being built
    dm_result,         \* what download_media returned (Null before it returns)
    calls,             \* transport / os calls issued so far, in order
    disk,              \* files in the download directory: [path, size]
    outcome,           \* "pending" | "returned" | "raised"
    args,              \* arguments of the parser function the host called
    retval,            \* what the parser function has returned so far
    hpc,               \* position of the on_new_message handler
    parsed,            \* the ParsedPost of the handler (Null before parsing)
    saved              \* the posts handed to save_json so far, in order

vars == <<engine, entry, message, MAX_DOWNLOAD_SIZE, ATTACH_MODE, KEEP_FILES,
          attach_mode, size_limit, parsed_html, pc, result, dm_result, calls,
          disk, outcome, args, retval, hpc, parsed, saved>>

inputs == <<engine, entry, message, MAX_DOWNLOAD_SIZE, ATTACH_MODE, KEEP_FILES,
            attach_mode, size_limit, parsed_html>>

\* the state of the parser functions and of the message handler, which the
\* attach engine never touches
parser == <<args, retval, hpc, parsed, saved>>

-----------------------------------------------------------------------------
(* Bounds of the model *)

\* sizes (approximate, configured and on-disk) range over 0..MaxSize
MaxSize == 2
\* the longest summary is CaptionLimit + ExtraLen characters
ExtraLen == 1

(* Program constants *)

\* len(caption) > 900 ; caption[:900]
CaptionLimit == 900
\* _fmt: if b < 1024 ; b /= 1024
KiB == 1024

-----------------------------------------------------------------------------
(* Values *)

\* Python None for an object-valued field
Null == [isNull |-> TRUE]

\* A file name is kept as stem and extension, so that mimetypes can look at
\* the extension; "" is the name with both parts empty.
Name(stem, ext) == [stem |-> stem, ext |-> ext]
NoName == Name("", "")

\* A path is a directory and a name; MediaResult.file_path = None is NoPath.
NoPath == [dir |-> "", name |-> NoName]

\* os.path.join(dest_dir, name)
os_path_join(dir, name) == [dir |-> dir, name |-> name]

\* os.path.basename(path)
os_path_basename(path) == path.name

\* Text sent to the chat is a sequence of pieces: the characters of the
\* summary, and the fixed fragments the engine appends.
Max(a, b) == IF a >= b THEN a ELSE b

\* s[:n]
Take(s, n) == SubSeq(s, 1, IF Len(s) < n THEN Len(s) ELSE Max(n, 0))

\* the summary of n characters; character i is written ToString(i)
Html(n) == [i \in 1..n |-> ToString(i)]

-----------------------------------------------------------------------------
(* Helpers of both modules *)

\* the unit of the k-th pass of the loop of _fmt
FmtUnit(k) ==
    CASE k = 0 -> "B" [] k = 1 -> "KB" [] k = 2 -> "MB" [] k = 3 -> "GB"
      [] OTHER -> "TB"

RECURSIVE Pow(_, _)
Pow(b, k) == IF k = 0 THEN 1 ELSE b * Pow(b, k - 1)

\* _fmt(b): divide by 1024 until below 1024 (at most four times), then one
\* decimal, rounded half to even as "{:.1f}" does on the exact quotient.
\* Sizes here stay below 2^31 / 10, so the loop ends at "GB" at the latest.
_fmt(b) ==
    LET small == {k \in 0..2 : b < Pow(KiB, k + 1)}
        k     == IF small = {} THEN 3
                 ELSE CHOOSE x \in small : \A y \in small : x <= y
        d     == Pow(KiB, k)
        q     == (10 * b) \div d
        r     == (10 * b) % d
        t     == IF 2 * r > d \/ (2 * r = d /\ q % 2 = 1) THEN q + 1 ELSE q
    IN  ToString(t \div 10) \o "." \o ToString(t % 10) \o " " \o FmtUnit(k)

\* html.escape(s): the sampled values hold none of & < > " ' , which are
\* the only characters it rewrites
html_escape(s) == s

\* mimetypes.guess_extension(mime) or ""   (CPython 3.11 tables)
guess_extension(mime) ==
    CASE mime = "audio/ogg"       -> ".oga"
      [] mime = "audio/mpeg"      -> ".mp3"
      [] mime = "video/mp4"       -> ".mp4"
      [] mime = "video/webm"      -> ".webm"
      [] mime = "image/webp"      -> ".webp"
      [] mime = "image/jpeg"      -> ".jpg"
      [] mime = "application/pdf" -> ".pdf"
      [] OTHER                    -> ""

\* mimetypes.guess_type(path)[0] or ""     (decided by the extension)
guess_type(path) ==
    LET e == path.name.ext
    IN  CASE e = ".oga" \/ e = ".ogg" -> "audio/ogg"
          [] e = ".mp3"               -> "audio/mpeg"
          [] e = ".mp4"               -> "video/mp4"
          [] e = ".webm"              -> "video/webm"
          [] e = ".webp"              -> "image/webp"
          [] e = ".jpg"               -> "image/jpeg"
          [] e = ".pdf"               -> "application/pdf"
          [] OTHER                    -> ""

\* telethon: _build_public_link(chat_username, message_id)
_build_public_link(chat_username, message_id) ==
    IF chat_username # ""
    THEN "https://t.me/" \o chat_username \o "/" \o ToString(message_id)
    ELSE ""

\* pyrogram: _build_link(username, msg_id)
_build_link(username, msg_id) ==
    IF username # ""
    THEN "https://t.me/" \o username \o "/" \o ToString(msg_id)
    ELSE ""

-----------------------------------------------------------------------------
(* Media descriptors *)

\* Telethon: message.media is Null or a record [type, photo, document].
\* A photo is Null or [sizes]; a size entry is [has_size, size] (stripped
\* and progressive entries carry no "size" attribute).
\* A document is Null or [size, mime_type, attributes]; an attribute is
\* [type, file_name, round_message, voice].
TlMedia(type, photo, document) ==
    [type |-> type, photo |-> photo, document |-> document]

DocAttr(type, file_name, round_message, voice) ==
    [type |-> type, file_name |-> file_name,
     round_message |-> round_message, voice |-> voice]

\* any(type(a).__name__ == tname for a in doc.attributes)
HasAttr(doc, tname) ==
    \E i \in DOMAIN doc.attributes : doc.attributes[i].type = tname

\* any(getattr(a, flag, False) for a in doc.attributes
\*     if type(a).__name__ == tname)
HasFlag(doc, tname, flag) ==
    \E i \in DOMAIN doc.attributes :
        /\ doc.attributes[i].type = tname
        /\ doc.attributes[i][flag]

\* for attr in doc.attributes: if attr.file_name: fname = ...; break
FirstFileName(doc) ==
    LET named == {i \in DOMAIN doc.attributes :
                     doc.attributes[i].file_name # NoName}
    IN  IF named = {} THEN NoName
        ELSE doc.attributes[CHOOSE i \in named : \A j \in named : i <= j].file_name

\* the if/elif chain of _get_media_meta over the attribute flags
DocumentType(doc) ==
    IF HasAttr(doc, "DocumentAttributeSticker") THEN "sticker"
    ELSE IF HasAttr(doc, "DocumentAttributeAnimated") THEN "gif"
    ELSE IF HasAttr(doc, "DocumentAttributeVideo")
         THEN IF HasFlag(doc, "DocumentAttributeVideo", "round_message")
              THEN "video_note" ELSE "video"
    ELSE IF HasAttr(doc, "DocumentAttributeAudio")
         THEN IF HasFlag(doc, "DocumentAttributeAudio", "voice")
              THEN "voice" ELSE "audio"
    ELSE "document"

\* telethon _get_media_meta(message) -> (media_type, approx_size, name)
_get_media_meta_telethon(msg) ==
    LET media == msg.media IN
    IF media = Null THEN <<"", 0, NoName>>
    ELSE IF media.type = "MessageMediaPhoto" THEN
        LET photo == media.photo
            size  == IF photo # Null /\ photo.sizes # <<>>
                     THEN LET largest == photo.sizes[Len(photo.sizes)]
                          IN  IF largest.has_size THEN largest.size ELSE 0
                     ELSE 0
        IN  <<"photo", size, NoName>>
    ELSE IF media.type = "MessageMediaDocument" THEN
        LET doc == media.document IN
        IF doc = Null THEN <<"document", 0, NoName>>
        ELSE LET mtype == DocumentType(doc)
                 fname == FirstFileName(doc)
             IN  <<mtype, doc.size,
                   IF fname = NoName
                   THEN Name(mtype \o "_" \o ToString(msg.id),
                             guess_extension(doc.mime_type))
                   ELSE fname>>
    ELSE IF media.type = "MessageMediaContact" THEN <<"contact", 0, NoName>>
    ELSE IF media.type \in {"MessageMediaGeo", "MessageMediaGeoLive"}
         THEN <<"location", 0, NoName>>
    ELSE IF media.type = "MessageMediaPoll" THEN <<"poll", 0, NoName>>
    ELSE IF media.type = "MessageMediaVenue" THEN <<"venue", 0, NoName>>
    ELSE IF media.type = "MessageMediaWebPage" THEN <<"webpage", 0, NoName>>
    ELSE <<"other", 0, NoName>>

\* Pyrogram: the message has one field per media kind, Null when absent;
\* a present one is [file_size, file_name, mime_type, is_animated, is_video].
PyKinds == {"photo", "video", "animation", "audio", "voice", "video_note",
            "sticker", "document", "contact", "location", "poll", "venue"}

PyObj(file_size, file_name, mime_type, is_animated, is_video) ==
    [file_size |-> file_size, file_name |-> file_name, mime_type |-> mime_type,
     is_animated |-> is_animated, is_video |-> is_video]

\* x or default
OrElse(x, empty, default) == IF x = empty THEN default ELSE x

\* pyrogram _get_media_meta(msg) -> (media_type, size, name, mime_type)
_get_media_meta_pyrogram(msg) ==
    LET id == ToString(msg.id) IN
    IF msg.photo # Null THEN
        <<"photo", msg.photo.file_size, NoName, "image/jpeg">>
    ELSE IF msg.video # Null THEN
        <<"video", msg.video.file_size,
          OrElse(msg.video.file_name, NoName, Name("video_" \o id, ".mp4")),
          OrElse(msg.video.mime_type, "", "video/mp4")>>
    ELSE IF msg.animation # Null THEN
        <<"gif", msg.animation.file_size,
          OrElse(msg.animation.file_name, NoName, Name("animation_" \o id, ".mp4")),
          OrElse(msg.animation.mime_type, "", "video/mp4")>>
    ELSE IF msg.audio # Null THEN
        <<"audio", msg.audio.file_size,
          OrElse(msg.audio.file_name, NoName, Name("audio_" \o id, ".mp3")),
          OrElse(msg.audio.mime_type, "", "audio/mpeg")>>
    ELSE IF msg.voice # Null THEN
        <<"voice", msg.voice.file_size, Name("voice_" \o id, ".ogg"),
          OrElse(msg.voice.mime_type, "", "audio/ogg")>>
    ELSE IF msg.video_note # Null THEN
        <<"video_note", msg.video_note.file_size,
          Name("videonote_" \o id, ".mp4"), "video/mp4">>
    ELSE IF msg.sticker # Null THEN
        <<"sticker", msg.sticker.file_size,
          Name("sticker_" \o id,
               IF msg.sticker.is_animated THEN ".tgs"
               ELSE IF msg.sticker.is_video THEN ".webm" ELSE ".webp"),
          "">>
    ELSE IF msg.document # Null THEN
        <<"document", msg.document.file_size,
          OrElse(msg.document.file_name, NoName, Name("file_" \o id, "")),
          msg.document.mime_type>>
    ELSE IF msg.contact # Null THEN <<"contact", 0, NoName, "">>
    ELSE IF msg.location # Null THEN <<"location", 0, NoName, "">>
    ELSE IF msg.poll # Null THEN <<"poll", 0, NoName, "">>
    ELSE IF msg.venue # Null THEN <<"venue", 0, NoName, "">>
    ELSE <<"", 0, NoName, "">>

-----------------------------------------------------------------------------
(* download_media *)

\* DOWNLOAD_DIR = os.getenv("DOWNLOAD_DIR", "downloads")
DOWNLOAD_DIR == "downloads"

\* MediaResult()
MediaResult ==
    [method |-> "none", file_path |-> NoPath, file_size |-> 0,
     file_name |-> NoName, mime_type |-> "", public_link |-> "",
     media_type |-> "", error |-> "", duration_ms |-> 0]

\* (mutant) "venue" is left out of the tuple
NonDownloadable_without_venue(eng) ==
    IF eng = "telethon"
    THEN {"contact", "location", "poll", "webpage"}
    ELSE {"contact", "location", "poll"}

\* the types download_media returns for at once, without a download
NonDownloadable(eng) ==
    IF eng = "telethon"
    THEN {"contact", "location", "poll", "venue", "webpage"}
    ELSE {"contact", "location", "poll", "venue"}

\* (media_type, approx_size, name, mime) of either module
MediaMeta(eng, msg) ==
    IF eng = "telethon"
    THEN LET m == _get_media_meta_telethon(msg) IN <<m[1], m[2], m[3], "">>
    ELSE _get_media_meta_pyrogram(msg)

\* the link of the message's chat, by either module
PublicLink(eng, msg) ==
    IF eng = "telethon"
    THEN _build_public_link(msg.chat_username, msg.id)
    ELSE _build_link(msg.chat_username, msg.id)

\* (mutant) the configured maximum is forgotten when no limit is passed
EffectiveLimit_without_max(limit, max) == limit

\* effective_limit = size_limit or MAX_DOWNLOAD_SIZE
EffectiveLimit(limit, max) == IF limit # 0 THEN limit ELSE max

\* if effective_limit and approx_size > effective_limit
ExceedsLimit(approx_size, effective_limit) ==
    effective_limit # 0 /\ approx_size > effective_limit

\* "link" if result.public_link else "none"
LinkOrNone(res) == IF res.public_link # "" THEN "link" ELSE "none"

\* the Telethon module awaits message.get_chat() before it builds the
\* link, unless the media type made it return already
AwaitsChat(eng, msg) ==
    /\ eng = "telethon"
    /\ MediaMeta(eng, msg)[1] # ""
    /\ MediaMeta(eng, msg)[1] \notin NonDownloadable(eng)

\* the result when the Telethon module suspends in message.get_chat()
DownloadMediaAtChat(eng, msg) ==
    [MediaResult EXCEPT !.media_type = MediaMeta(eng, msg)[1],
                        !.file_size = MediaMeta(eng, msg)[2],
                        !.file_name = MediaMeta(eng, msg)[3]]

\* download_media up to the transport call: the result so far, whether the
\* transport is to be called, and the destination handed to it
DownloadMediaBefore(eng, msg, limit, max) ==
    LET meta == MediaMeta(eng, msg)
        r0   == IF eng = "telethon"
                THEN [MediaResult EXCEPT !.media_type = meta[1]]
                ELSE [MediaResult EXCEPT !.media_type = meta[1],
                                         !.file_size = meta[2],
                                         !.file_name = meta[3],
                                         !.mime_type = meta[4]]
        r1   == [r0 EXCEPT !.file_size = meta[2], !.file_name = meta[3],
                           !.public_link = PublicLink(eng, msg)]
        dest == IF meta[3] # NoName
                THEN os_path_join(DOWNLOAD_DIR, meta[3])
                ELSE os_path_join(DOWNLOAD_DIR, NoName)
    IN  IF meta[1] = "" \/ meta[1] \in NonDownloadable(eng)
        THEN [result |-> [r0 EXCEPT !.method = "none"],
              download |-> FALSE, dest |-> NoPath]
        ELSE IF ExceedsLimit(meta[2], EffectiveLimit(limit, max))
        THEN [result |-> [r1 EXCEPT !.method = LinkOrNone(r1)],
              download |-> FALSE, dest |-> NoPath]
        ELSE [result |-> r1, download |-> TRUE, dest |-> dest]

\* the closing if/elif chain of download_media
DecideMethod(res) ==
    IF res.file_path # NoPath /\ res.public_link # "" THEN "both"
    ELSE IF res.file_path # NoPath THEN "file"
    ELSE IF res.public_link # "" THEN "link"
    ELSE "none"

\* the message recorded when the transport returns None
NoneError(eng) ==
    IF eng = "telethon" THEN "download_media returned None"
    ELSE "download returned None"

\* (mutant) a saved file sets file_path alone: size and name stay as
\* estimated before the download
DownloadMediaAfter_keeps_estimate(eng, res, ret) ==
    IF ret.kind = "raise"
    THEN [res EXCEPT !.error = ret.error, !.method = LinkOrNone(res)]
    ELSE IF ret.kind = "none"
    THEN [res EXCEPT !.duration_ms = ret.ms, !.error = NoneError(eng),
                     !.method = LinkOrNone(res)]
    ELSE LET r == [res EXCEPT !.duration_ms = ret.ms, !.file_path = ret.path]
         IN  [r EXCEPT !.method = DecideMethod(r)]

\* download_media from the return of the transport call on; ret is what the
\* transport did: [kind: "path" | "none" | "raise", path, size, error, ms]
DownloadMediaAfter(eng, res, ret) ==
    IF ret.kind = "raise"
    THEN [res EXCEPT !.error = ret.error, !.method = LinkOrNone(res)]
    ELSE IF ret.kind = "none"
    THEN [res EXCEPT !.duration_ms = ret.ms, !.error = NoneError(eng),
                     !.method = LinkOrNone(res)]
    ELSE LET guessed == guess_type(ret.path)
             r == [res EXCEPT
                     !.duration_ms = ret.ms,
                     !.file_path = ret.path,
                     !.file_size = ret.size,
                     !.mime_type = IF eng = "telethon" \/ guessed # ""
                                   THEN guessed ELSE res.mime_type,
                     !.file_name = os_path_basename(ret.path)]
         IN  [r EXCEPT !.method = DecideMethod(r)]

-----------------------------------------------------------------------------
(* download_and_attach: what is sent *)

\* the ASCII letters, upper case and lower case in the same order
UpperLetters ==
    <<"A", "B", "C", "D", "E", "F", "G", "H", "I", "J", "K", "L", "M", "N",
      "O", "P", "Q", "R", "S", "T", "U", "V", "W", "X", "Y", "Z">>

LowerLetters ==
    <<"a", "b", "c", "d", "e", "f", "g", "h", "i", "j", "k", "l", "m", "n",
      "o", "p", "q", "r", "s", "t", "u", "v", "w", "x", "y", "z">>

\* str.lower() on the sampled mode strings and on single characters
str_lower(s) ==
    CASE s = "Both" -> "both"
      [] s = "LINK" -> "link"
      [] s = "#Tag" -> "#tag"
      [] OTHER      ->
            IF \E i \in 1..26 : UpperLetters[i] = s
            THEN LowerLetters[CHOOSE i \in 1..26 : UpperLetters[i] = s]
            ELSE s

\* mode = (attach_mode or ATTACH_MODE).lower()
Mode(arg, env) == str_lower(IF arg # "" THEN arg ELSE env)

\* the character U+2026 appended to a cut caption
Ellipsis == "..."

\* link_line: "" without a public link, else the anchor on its own paragraph
LinkLine(res) ==
    IF res.public_link # ""
    THEN <<"\n\n<a href=\"" \o html_escape(res.public_link) \o "\">Original</a>">>
    ELSE <<>>

\* (mutant) the caption is the summary, whatever its length
Caption_without_cut(html) == html

\* caption = parsed_html; if len(caption) > 900: caption = caption[:900] + ellipsis
Caption(html) ==
    IF Len(html) > CaptionLimit
    THEN Append(Take(html, CaptionLimit), Ellipsis)
    ELSE html

\* the "Media not downloaded" paragraph
NotDownloadedNote(res) ==
    <<"\n\n<b>Media not downloaded</b> (" \o html_escape(res.media_type)
        \o ", " \o _fmt(res.file_size) \o ")">>

\* (mutant) the "link" mode is not told apart from "auto"
SendFileFlag_link_as_auto(mode, res) == res.file_path # NoPath

\* send_file, as the mode decides it
SendFileFlag(mode, res) ==
    IF mode = "link" THEN FALSE ELSE res.file_path # NoPath

\* send_link_only, as the mode decides it
SendLinkOnlyFlag(mode, res) ==
    IF mode = "file" \/ mode = "both" THEN FALSE
    ELSE IF mode = "link" THEN TRUE
    ELSE res.file_path = NoPath

\* caption after the mode branch: "both" appends the link line to it
ModeCaption(mode, res, html) ==
    IF mode = "both" THEN Caption(html) \o LinkLine(res) ELSE Caption(html)

\* (mutant) the link line is appended in every mode
FinalCaption_link_in_every_mode(mode, res, html) ==
    Caption(html) \o LinkLine(res)

\* caption=caption + (link_line if mode == "both" else "")
FinalCaption(mode, res, html) ==
    ModeCaption(mode, res, html) \o (IF mode = "both" THEN LinkLine(res) ELSE <<>>)

\* text of the link-only message
LinkText(res, html) ==
    html \o LinkLine(res)
         \o (IF res.file_size # 0 /\ res.file_path = NoPath
             THEN NotDownloadedNote(res) ELSE <<>>)

\* the try block of download_and_attach: the one call it issues and the
\* method it records when that call succeeds
PrimarySend(mode, res, html) ==
    IF SendFileFlag(mode, res) /\ res.file_path # NoPath
    THEN [op |-> "send_file", path |-> res.file_path,
          text |-> FinalCaption(mode, res, html),
          method |-> IF mode = "both" /\ res.public_link # ""
                     THEN "both" ELSE "file"]
    ELSE IF SendLinkOnlyFlag(mode, res) \/ res.file_path = NoPath
    THEN [op |-> "send_message", path |-> NoPath,
          text |-> LinkText(res, html),
          method |-> LinkOrNone(res)]
    ELSE [op |-> "send_message", path |-> NoPath, text |-> html,
          method |-> res.method]

-----------------------------------------------------------------------------
(* Inputs *)

Engines == {"telethon", "pyrogram"}
MsgIds == {7}
Usernames == {"", "durov"}
Sizes == 0..MaxSize
\* str(exc) of what a transport call raises; TimeoutError() has the empty one
ExcMessages == {"", "timed out"}
\* wall-clock milliseconds of a download
ElapsedMs == {3}

ReportPdf == Name("report", ".pdf")

\* Telethon messages
TlMessage(id, media, grouped_id, username) ==
    [id |-> id, media |-> media, grouped_id |-> grouped_id,
     chat_username |-> username]

TlDownloadable ==
    {TlMedia("MessageMediaPhoto", [sizes |-> <<[has_size |-> TRUE, size |-> s]>>], Null)
        : s \in Sizes}
    \cup
    {TlMedia("MessageMediaDocument", Null,
             [size |-> s, mime_type |-> "application/pdf",
              attributes |-> <<DocAttr("DocumentAttributeFilename", ReportPdf, FALSE, FALSE)>>])
        : s \in Sizes}
    \cup
    {TlMedia("MessageMediaDocument", Null,
             [size |-> MaxSize, mime_type |-> "audio/ogg",
              attributes |-> <<DocAttr("DocumentAttributeAudio", NoName, FALSE, TRUE)>>]),
     TlMedia("MessageMediaDice", Null, Null)}

TlTerminal ==
    {Null} \cup
    {TlMedia(t, Null, Null) :
        t \in {"MessageMediaContact", "MessageMediaGeo", "MessageMediaGeoLive",
               "MessageMediaPoll", "MessageMediaVenue", "MessageMediaWebPage"}}

\* an album is made of photos and documents: only those carry a grouped_id
TlMessages ==
    {TlMessage(id, m, Null, u) :
        id \in MsgIds, m \in TlDownloadable \cup TlTerminal, u \in Usernames}
    \cup
    {TlMessage(id, m, [id |-> 55], u) :
        id \in MsgIds,
        m \in {x \in TlDownloadable :
                 x.type \in {"MessageMediaPhoto", "MessageMediaDocument"}},
        u \in Usernames}

\* Pyrogram messages: at most one media field is set
PyMessage(id, username, kind, obj) ==
    [k \in PyKinds \cup {"id", "chat_username"} |->
        IF k = "id" THEN id
        ELSE IF k = "chat_username" THEN username
        ELSE IF k = kind THEN obj ELSE Null]

PyDownloadable ==
    {<<"photo", PyObj(s, NoName, "", FALSE, FALSE)>> : s \in Sizes}
    \cup
    {<<"document", PyObj(s, ReportPdf, "application/pdf", FALSE, FALSE)>> : s \in Sizes}
    \cup
    {<<"voice", PyObj(MaxSize, NoName, "audio/ogg", FALSE, FALSE)>>}

PyTerminal ==
    {<<k, PyObj(0, NoName, "", FALSE, FALSE)>> :
        k \in {"contact", "location", "poll", "venue", "none"}}

PyMessages ==
    {PyMessage(id, u, m[1], m[2]) :
        id \in MsgIds, u \in Usernames, m \in PyDownloadable \cup PyTerminal}

Messages(eng) == IF eng = "telethon" THEN TlMessages ELSE PyMessages

\* message.grouped_id, which only the Telethon module reads
GroupedId(eng, msg) == IF eng = "telethon" THEN msg.grouped_id ELSE Null

ModeArgs == {"", "file", "link", "Both", "zip"}
ModeEnvs == {"auto", "LINK"}
\* (attach_mode, ATTACH_MODE): the configured mode is read only when no
\* argument is passed, so it varies only then
ModePairs ==
    {<<"", env>> : env \in ModeEnvs}
    \cup {<<arg, "auto">> : arg \in ModeArgs \ {""}}
HtmlLens == {CaptionLimit, CaptionLimit + ExtraLen}
Limits == {0, 1}

-----------------------------------------------------------------------------
(* The state machine *)

Init ==
    /\ engine \in Engines
    /\ entry \in {"download_media", "download_and_attach"}
    /\ message \in Messages(engine)
    /\ MAX_DOWNLOAD_SIZE \in Limits
    /\ IF entry = "download_and_attach"
       THEN /\ size_limit = 0          \* download_media(client, message)
            /\ \E pair \in ModePairs :
                   /\ attach_mode = pair[1]
                   /\ ATTACH_MODE = pair[2]
            /\ KEEP_FILES \in BOOLEAN
            /\ parsed_html \in {Html(n) : n \in HtmlLens}
       ELSE /\ size_limit \in Limits
            /\ attach_mode = ""
            /\ ATTACH_MODE = "auto"
            /\ KEEP_FILES = TRUE
            /\ parsed_html = <<>>
            /\ GroupedId(engine, message) = Null
    /\ pc = "idle"
    /\ result = MediaResult
    /\ dm_result = Null
    /\ calls = <<>>
    /\ disk = {}
    /\ outcome = "pending"
    /\ args = Null
    /\ retval = Null
    /\ hpc = "idle"
    /\ parsed = Null
    /\ saved = <<>>

Call(op, at, path, text, ok, error) ==
    [op |-> op, at |-> at, path |-> path, text |-> text, ok |-> ok,
     error |-> error]

\* where the transport may save a download to dest: at dest itself, under a
\* name of its own when dest is a directory, or under "<stem> (1)" when the
\* name is taken
SavedPaths(dest, msg) ==
    IF dest.name = NoName
    THEN {os_path_join(dest.dir, Name("photo_" \o ToString(msg.id), ".jpg"))}
    ELSE {dest,
          os_path_join(dest.dir, Name(dest.name.stem \o " (1)", dest.name.ext))}

\* what the transport may do with a download to dest; the size it writes
\* is what os.path.getsize reads back
DownloadReturns(dest, msg, approx) ==
    {[kind |-> "raise", path |-> NoPath, size |-> 0, error |-> e, ms |-> 0]
        : e \in ExcMessages}
    \cup
    {[kind |-> "none", path |-> NoPath, size |-> 0, error |-> "", ms |-> t]
        : t \in ElapsedMs}
    \cup
    {[kind |-> "path", path |-> p, size |-> s, error |-> "", ms |-> t]
        : p \in SavedPaths(dest, msg),
          s \in {approx, (approx + 1) % (MaxSize + 1)}, t \in ElapsedMs}

\* download_and_attach from the return of download_media on, up to its
\* next transport call; download_media called alone returns here
AfterDownloadMedia(res) ==
    /\ dm_result' = res
    /\ IF entry = "download_media"
       THEN /\ result' = res
            /\ pc' = "done"
            /\ outcome' = "returned"
       ELSE IF GroupedId(engine, message) # Null
       THEN /\ result' = [res EXCEPT !.method = "none"]
            /\ pc' = "done"
            /\ outcome' = "returned"
       ELSE /\ result' = res
            /\ pc' = IF res.method = "none" THEN "send_none" ELSE "send_primary"
            /\ outcome' = "pending"

\* the call is made: download_media runs up to its first await, which is
\* message.get_chat() in the Telethon module and the transport call in the
\* Pyrogram module
Start ==
    /\ pc = "idle"
    /\ IF AwaitsChat(engine, message)
       THEN /\ result' = DownloadMediaAtChat(engine, message)
            /\ pc' = "get_chat"
            /\ UNCHANGED <<outcome, dm_result>>
       ELSE LET b == DownloadMediaBefore(engine, message, size_limit,
                                         MAX_DOWNLOAD_SIZE)
            IN  IF b.download
                THEN /\ result' = b.result
                     /\ pc' = "downloading"
                     /\ UNCHANGED <<outcome, dm_result>>
                ELSE AfterDownloadMedia(b.result)
    /\ UNCHANGED <<inputs, parser, calls, disk>>

\* chat = await message.get_chat(): it raises, and the exception leaves
\* download_media and download_and_attach, or it returns and download_media
\* runs on to the transport call (the limit is read here)
GetChat ==
    /\ pc = "get_chat"
    /\ \/ /\ pc' = "done"
          /\ outcome' = "raised"
          /\ UNCHANGED <<result, dm_result>>
       \/ LET b == DownloadMediaBefore(engine, message, size_limit,
                                       MAX_DOWNLOAD_SIZE)
          IN  IF b.download
              THEN /\ result' = b.result
                   /\ pc' = "downloading"
                   /\ UNCHANGED <<outcome, dm_result>>
              ELSE AfterDownloadMedia(b.result)
    /\ UNCHANGED <<inputs, parser, calls, disk>>

\* await client.download_media(...) / await message.download(...)
TransportDownload ==
    /\ pc = "downloading"
    /\ LET b == DownloadMediaBefore(engine, message, size_limit, MAX_DOWNLOAD_SIZE)
       IN  \E ret \in DownloadReturns(b.dest, message, b.result.file_size) :
             /\ calls' = Append(calls, Call("download", "download_media", b.dest,
                                            <<>>, ret.kind # "raise", ret.error))
             /\ disk' = IF ret.kind = "path"
                        THEN disk \cup {[path |-> ret.path, size |-> ret.size]}
                        ELSE disk
             /\ AfterDownloadMedia(DownloadMediaAfter(engine, result, ret))
    /\ UNCHANGED <<inputs, parser>>

\* "nothing to attach": the summary is sent outside any try block
SendNothing ==
    /\ pc = "send_none"
    /\ \E ok \in BOOLEAN, e \in ExcMessages :
         /\ ok => e = ""
         /\ calls' = Append(calls, Call("send_message", "nothing", NoPath,
                                        parsed_html, ok, e))
         /\ outcome' = IF ok THEN "returned" ELSE "raised"
    /\ pc' = "done"
    /\ UNCHANGED <<inputs, parser, result, dm_result, disk>>

\* the try block: one send_file or send_message
SendPrimary ==
    /\ pc = "send_primary"
    /\ LET p == PrimarySend(Mode(attach_mode, ATTACH_MODE), result, parsed_html)
       IN  \/ /\ calls' = Append(calls, Call(p.op, "primary", p.path, p.text,
                                             TRUE, ""))
              /\ result' = [result EXCEPT !.method = p.method]
              /\ pc' = "cleanup"
           \/ \E e \in ExcMessages :
              /\ calls' = Append(calls, Call(p.op, "primary", p.path, p.text,
                                             FALSE, e))
              /\ result' = [result EXCEPT !.error = e]
              /\ pc' = "send_fallback"
    /\ UNCHANGED <<inputs, parser, dm_result, disk, outcome>>

\* (mutant) the except block records the error and sends nothing
SendFallback_without_send ==
    /\ pc = "send_fallback"
    /\ pc' = "cleanup"
    /\ UNCHANGED <<inputs, parser, result, dm_result, calls, disk, outcome>>

\* the except block: the summary alone, its own failure swallowed
SendFallback ==
    /\ pc = "send_fallback"
    /\ \E ok \in BOOLEAN :
         calls' = Append(calls, Call("send_message", "fallback", NoPath,
                                     parsed_html, ok, ""))
    /\ pc' = "cleanup"
    /\ UNCHANGED <<inputs, parser, result, dm_result, disk, outcome>>

\* (mutant) the file is removed as soon as the primary send has failed,
\* before the fallback is sent
Cleanup_before_fallback ==
    \/ /\ pc = "send_fallback"
       /\ result.file_path # NoPath /\ ~KEEP_FILES
       /\ \A i \in DOMAIN calls : calls[i].op # "remove"
       /\ calls' = Append(calls, Call("remove", "cleanup",
                                      result.file_path, <<>>, TRUE, ""))
       /\ disk' = {f \in disk : f.path # result.file_path}
       /\ UNCHANGED <<inputs, parser, pc, outcome, result, dm_result>>
    \/ /\ pc = "cleanup"
       /\ pc' = "done"
       /\ outcome' = "returned"
       /\ UNCHANGED <<inputs, parser, result, dm_result, calls, disk>>

\* if result.file_path and not KEEP_FILES: os.remove, OSError swallowed
Cleanup ==
    /\ pc = "cleanup"
    /\ IF result.file_path # NoPath /\ ~KEEP_FILES
       THEN \E ok \in BOOLEAN :
              /\ calls' = Append(calls, Call("remove", "cleanup",
                                             result.file_path, <<>>, ok, ""))
              /\ disk' = IF ok
                         THEN {f \in disk : f.path # result.file_path}
                         ELSE disk
       ELSE UNCHANGED <<calls, disk>>
    /\ pc' = "done"
    /\ outcome' = "returned"
    /\ UNCHANGED <<inputs, parser, result, dm_result>>

Next ==
    \/ Start
    \/ GetChat
    \/ TransportDownload
    \/ SendNothing
    \/ SendPrimary
    \/ SendFallback
    \/ Cleanup

Spec == Init /\ [][Next]_vars

-----------------------------------------------------------------------------
(* The parser functions: src/parser_telethon.py and src/parser_pyrogram.py *)
(* A string is a sequence of pieces (characters, or whole words where the  *)
(* function never looks inside them); " " is the whitespace piece.         *)

\* what a parser function leaves alone
engineVars == <<message, MAX_DOWNLOAD_SIZE, ATTACH_MODE, KEEP_FILES,
                attach_mode, size_limit, parsed_html, result, dm_result,
                calls, disk, hpc, parsed, saved>>

AttachIdle ==
    /\ message = Null
    /\ MAX_DOWNLOAD_SIZE = 0
    /\ ATTACH_MODE = "auto"
    /\ KEEP_FILES = TRUE
    /\ attach_mode = ""
    /\ size_limit = 0
    /\ parsed_html = <<>>
    /\ result = MediaResult
    /\ dm_result = Null
    /\ calls = <<>>
    /\ disk = {}

\* neither the attach engine nor a handler runs
EngineIdle ==
    /\ AttachIdle
    /\ hpc = "idle"
    /\ parsed = Null
    /\ saved = <<>>

\* all sequences over S of length at most n
SeqsUpTo(S, n) == UNION {[1..k -> S] : k \in 0..n}

RECURSIVE str_lstrip(_)
str_lstrip(s) ==
    IF s # <<>> /\ Head(s) = " " THEN str_lstrip(Tail(s)) ELSE s

RECURSIVE str_rstrip(_)
str_rstrip(s) ==
    IF s # <<>> /\ s[Len(s)] = " "
    THEN str_rstrip(SubSeq(s, 1, Len(s) - 1)) ELSE s

\* s.strip()
str_strip(s) == str_rstrip(str_lstrip(s))

\* s.lower(), piece by piece
lower(s) == [i \in 1..Len(s) |-> str_lower(s[i])]

\* text[lo:hi] for lo, hi >= 0: an out-of-range slice is cut short or empty
Slice(text, lo, hi) ==
    SubSeq(text, (IF lo < Len(text) THEN lo ELSE Len(text)) + 1,
                 IF hi < Len(text) THEN hi ELSE Len(text))

(* _merge *)

\* (mutant) the key is lower-cased without being stripped
MergeKey_without_strip(item) == lower(item)

\* key = item.strip().lower()
MergeKey(item) == lower(str_strip(item))

\* the loop of _merge over the items left, with seen and out as built so far
RECURSIVE MergeLoop(_, _, _)
MergeLoop(items, seen, out) ==
    IF items = <<>> THEN out
    ELSE LET item == Head(items)
             key  == MergeKey(item)
         IN  IF key # <<>> /\ key \notin seen
             THEN MergeLoop(Tail(items), seen \cup {key},
                            Append(out, str_strip(item)))
             ELSE MergeLoop(Tail(items), seen, out)

\* (mutant) the regex list is walked before the structured one
_merge_regex_first(a, b) == MergeLoop(b \o a, {}, <<>>)

\* _merge(a, b)
_merge(a, b) == MergeLoop(a \o b, {}, <<>>)

\* at most MaxItems entries in the two lists together
MaxItems == 3

\* entries that differ by case and by surrounding whitespace only, a
\* different one, an empty one and a blank one
MergeItems ==
    {<<"#Tag">>, <<"#tag">>, <<" ", "#tag">>, <<"#tag", " ">>, <<"#new">>,
     <<>>, <<" ">>}

\* every way to cut such a list into the structured and the regex part
MergeArgs ==
    {[a |-> SubSeq(c[1], 1, c[2]), b |-> SubSeq(c[1], c[2] + 1, Len(c[1]))] :
        c \in {x \in SeqsUpTo(MergeItems, MaxItems) \X (0..MaxItems) :
                  x[2] <= Len(x[1])}}

InitMerge ==
    /\ entry = "_merge"
    /\ engine \in Engines
    /\ EngineIdle
    /\ args \in MergeArgs
    /\ retval = <<>>
    /\ pc = "idle"
    /\ outcome = "pending"

\* one application of _merge, logged with its arguments
Merged(a, b) == [a |-> a, b |-> b, out |-> _merge(a, b)]

\* urls = _merge(ent["urls"], reg["urls"]), and so on per bucket
Merge ==
    /\ entry = "_merge" /\ pc = "idle"
    /\ retval' = <<Merged(args.a, args.b)>>
    /\ pc' = "merged"
    /\ UNCHANGED <<engine, entry, engineVars, args, outcome>>

\* the output merged again with the empty list
ReMergeEmpty ==
    /\ entry = "_merge" /\ pc = "merged"
    /\ retval' = Append(retval, Merged(retval[1].out, <<>>))
    /\ pc' = "done"
    /\ outcome' = "returned"
    /\ UNCHANGED <<engine, entry, engineVars, args>>

\* the output merged again with itself
ReMergeSelf ==
    /\ entry = "_merge" /\ pc = "merged"
    /\ retval' = Append(retval, Merged(retval[1].out, retval[1].out))
    /\ pc' = "done"
    /\ outcome' = "returned"
    /\ UNCHANGED <<engine, entry, engineVars, args>>

NextMerge ==
    \/ Merge
    \/ ReMergeEmpty
    \/ ReMergeSelf

SpecMerge == InitMerge /\ [][NextMerge]_vars

(* _extract_entities / _extract_entities_pyrogram *)

\* _ALL_BUCKETS
_ALL_BUCKETS ==
    {"urls", "hashtags", "mentions", "emails", "phones", "bold", "italic",
     "underline", "strikethrough", "code", "spoiler"}

\* _ENTITY_MAP: Telethon entity type -> bucket name
_ENTITY_MAP ==
    ("MessageEntityUrl" :> "urls") @@ ("MessageEntityTextUrl" :> "urls")
    @@ ("MessageEntityHashtag" :> "hashtags")
    @@ ("MessageEntityMention" :> "mentions")
    @@ ("MessageEntityMentionName" :> "mentions")
    @@ ("MessageEntityEmail" :> "emails") @@ ("MessageEntityPhone" :> "phones")
    @@ ("MessageEntityBold" :> "bold") @@ ("MessageEntityItalic" :> "italic")
    @@ ("MessageEntityUnderline" :> "underline")
    @@ ("MessageEntityStrike" :> "strikethrough")
    @@ ("MessageEntityCode" :> "code") @@ ("MessageEntityPre" :> "code")
    @@ ("MessageEntitySpoiler" :> "spoiler")

\* _PYR_MAP: Pyrogram MessageEntityType -> bucket name
_PYR_MAP ==
    ("URL" :> "urls") @@ ("TEXT_LINK" :> "urls") @@ ("HASHTAG" :> "hashtags")
    @@ ("MENTION" :> "mentions") @@ ("TEXT_MENTION" :> "mentions")
    @@ ("EMAIL" :> "emails") @@ ("PHONE_NUMBER" :> "phones")
    @@ ("BOLD" :> "bold") @@ ("ITALIC" :> "italic")
    @@ ("UNDERLINE" :> "underline") @@ ("STRIKETHROUGH" :> "strikethrough")
    @@ ("CODE" :> "code") @@ ("PRE" :> "code") @@ ("SPOILER" :> "spoiler")

\* dict.get(key): None, written NoBucket, for a key the table lacks
NoBucket == ""
MapGet(map, key) == IF key \in DOMAIN map THEN map[key] ELSE NoBucket

\* an annotation: its type, whether it has an offset field at all, offset
\* and length, and the payloads: url of a text link, user_id of a Telethon
\* mention by name, user ([first_name, last_name, id] or Null) of a Pyrogram
\* text mention
Entity(type, has_offset, offset, length, url, user_id, user) ==
    [type |-> type, has_offset |-> has_offset, offset |-> offset,
     length |-> length, url |-> url, user_id |-> user_id, user |-> user]

\* buckets = {k: [] for k in _ALL_BUCKETS}
EmptyBuckets == [k \in _ALL_BUCKETS |-> <<>>]

\* what a run of the extractor ends with: the buckets, or an exception
Extracted(buckets) == [raised |-> FALSE, buckets |-> buckets]
ExtractRaised == [raised |-> TRUE, buckets |-> Null]

\* buckets[k].append(v)
BucketAppend(buckets, k, v) == [buckets EXCEPT ![k] = Append(@, v)]

\* (mutant) the identifier alone, without the "id:" prefix
IdLabel_without_prefix(id) == <<ToString(id)>>

\* f"id:{user_id}"
IdLabel(id) == <<"id:", ToString(id)>>

\* the for loop of the Telethon _extract_entities; reading ent.offset
\* raises when the field is missing
RECURSIVE ExtractLoop(_, _, _)
ExtractLoop(text, entities, buckets) ==
    IF entities = <<>> THEN Extracted(buckets)
    ELSE LET ent    == Head(entities)
             bucket == MapGet(_ENTITY_MAP, ent.type)
         IN  IF bucket = NoBucket
             THEN ExtractLoop(text, Tail(entities), buckets)
             ELSE IF ~ent.has_offset
             THEN ExtractRaised
             ELSE LET fragment == Slice(text, ent.offset, ent.offset + ent.length)
                      value ==
                        IF ent.type = "MessageEntityTextUrl"
                        THEN (IF ent.url # <<>> THEN ent.url ELSE fragment)
                        ELSE IF ent.type = "MessageEntityMentionName"
                        THEN IdLabel(ent.user_id)
                        ELSE fragment
                      key == IF ent.type = "MessageEntityTextUrl" THEN "urls"
                             ELSE IF ent.type = "MessageEntityMentionName"
                             THEN "mentions" ELSE bucket
                  IN  ExtractLoop(text, Tail(entities),
                                  BucketAppend(buckets, key, value))

\* parser_telethon._extract_entities(text, entities); entities is None
\* (is_none) or a list
_extract_entities(text, is_none, entities) ==
    IF is_none \/ entities = <<>> \/ text = <<>>
    THEN Extracted(EmptyBuckets)
    ELSE ExtractLoop(text, entities, EmptyBuckets)

\* f"{first_name or ''} {last_name or ''}".strip()
UserName(user) == str_strip(user.first_name \o <<" ">> \o user.last_name)

\* the for loop of _extract_entities_pyrogram
RECURSIVE ExtractLoopPyrogram(_, _, _)
ExtractLoopPyrogram(text, entities, buckets) ==
    IF entities = <<>> THEN Extracted(buckets)
    ELSE LET ent    == Head(entities)
             bucket == MapGet(_PYR_MAP, ent.type)
         IN  IF bucket = NoBucket
             THEN ExtractLoopPyrogram(text, Tail(entities), buckets)
             ELSE IF ~ent.has_offset
             THEN ExtractRaised
             ELSE LET fragment == Slice(text, ent.offset, ent.offset + ent.length)
                      value ==
                        IF ent.type = "TEXT_LINK"
                        THEN (IF ent.url # <<>> THEN ent.url ELSE fragment)
                        ELSE IF ent.type = "TEXT_MENTION" /\ ent.user # Null
                        THEN (IF UserName(ent.user) # <<>>
                              THEN UserName(ent.user)
                              ELSE IdLabel(ent.user.id))
                        ELSE fragment
                      key == IF ent.type = "TEXT_LINK" THEN "urls"
                             ELSE IF ent.type = "TEXT_MENTION" /\ ent.user # Null
                             THEN "mentions" ELSE bucket
                  IN  ExtractLoopPyrogram(text, Tail(entities),
                                          BucketAppend(buckets, key, value))

\* parser_pyrogram._extract_entities_pyrogram(text, entities)
_extract_entities_pyrogram(text, is_none, entities) ==
    IF is_none \/ entities = <<>> \/ text = <<>>
    THEN Extracted(EmptyBuckets)
    ELSE ExtractLoopPyrogram(text, entities, EmptyBuckets)

\* the longest annotation list
MaxEnts == 2

\* the message text, or none
SampleText == <<"a", "b", "c", "d">>
Texts == {SampleText, <<>>}

SampleUrl == <<"https://x">>
NamedUser == [first_name |-> <<"Ann">>, last_name |-> <<>>, id |-> 42]
NamelessUser == [first_name |-> <<>>, last_name |-> <<>>, id |-> 42]

\* one annotation of every Telethon type of the table over text[0:2], one
\* of a type the table lacks, a text link without a URL, one lying outside
\* the text, one running past its end, one without an offset
TlEntities ==
    {Entity(t, TRUE, 0, 2,
            IF t = "MessageEntityTextUrl" THEN SampleUrl ELSE <<>>,
            IF t = "MessageEntityMentionName" THEN 42 ELSE 0, Null)
        : t \in DOMAIN _ENTITY_MAP}
    \cup
    {Entity("MessageEntityBlockquote", TRUE, 0, 2, <<>>, 0, Null),
     Entity("MessageEntityTextUrl", TRUE, 2, 2, <<>>, 0, Null),
     Entity("MessageEntityHashtag", TRUE, 9, 2, <<>>, 0, Null),
     Entity("MessageEntityBold", TRUE, 3, 4, <<>>, 0, Null),
     Entity("MessageEntityUrl", FALSE, 0, 2, <<>>, 0, Null)}

\* the same for Pyrogram, whose text mention carries the user or None
PyEntities ==
    {Entity(t, TRUE, 0, 2,
            IF t = "TEXT_LINK" THEN SampleUrl ELSE <<>>, 0,
            IF t = "TEXT_MENTION" THEN NamedUser ELSE Null)
        : t \in DOMAIN _PYR_MAP}
    \cup
    {Entity("BLOCKQUOTE", TRUE, 0, 2, <<>>, 0, Null),
     Entity("TEXT_LINK", TRUE, 2, 2, <<>>, 0, Null),
     Entity("TEXT_MENTION", TRUE, 2, 2, <<>>, 0, NamelessUser),
     Entity("TEXT_MENTION", TRUE, 2, 2, <<>>, 0, Null),
     Entity("HASHTAG", TRUE, 9, 2, <<>>, 0, Null),
     Entity("BOLD", TRUE, 3, 4, <<>>, 0, Null),
     Entity("URL", FALSE, 0, 2, <<>>, 0, Null)}

EntitiesOf(eng) == IF eng = "telethon" THEN TlEntities ELSE PyEntities

InitEntities ==
    /\ entry = "_extract_entities"
    /\ engine \in Engines
    /\ EngineIdle
    /\ \E text \in Texts :
          \/ args = [text |-> text, is_none |-> TRUE, entities |-> <<>>]
          \/ \E entities \in SeqsUpTo(EntitiesOf(engine), MaxEnts) :
                args = [text |-> text, is_none |-> FALSE, entities |-> entities]
    /\ retval = Null
    /\ pc = "idle"
    /\ outcome = "pending"

\* ent = _extract_entities(text, entities), by either parser
ExtractEntities ==
    /\ entry = "_extract_entities" /\ pc = "idle"
    /\ LET r == IF engine = "telethon"
                THEN _extract_entities(args.text, args.is_none, args.entities)
                ELSE _extract_entities_pyrogram(args.text, args.is_none,
                                                args.entities)
       IN  /\ retval' = r.buckets
           /\ outcome' = IF r.raised THEN "raised" ELSE "returned"
    /\ pc' = "done"
    /\ UNCHANGED <<engine, entry, engineVars, args>>

NextEntities == ExtractEntities

SpecEntities == InitEntities /\ [][NextEntities]_vars

(* _detect_media (parser_telethon) beside _get_media_meta (downloader) *)

\* "video" in mime / "audio" in mime, on the sampled MIME types
MimeHas(mime, word) ==
    CASE word = "video" -> mime \in {"video/mp4", "video/webm"}
      [] word = "audio" -> mime \in {"audio/ogg", "audio/mpeg"}
      [] OTHER          -> FALSE

\* getattr(media, "round", False)
MediaRound(media) == IF "round" \in DOMAIN media THEN media.round ELSE FALSE

\* for attr in doc.attributes: if attr.file_name: fname = attr.file_name
LastFileName(doc) ==
    LET named == {i \in DOMAIN doc.attributes :
                     doc.attributes[i].file_name # NoName}
    IN  IF named = {} THEN NoName
        ELSE doc.attributes[CHOOSE i \in named : \A j \in named : j <= i].file_name

\* for attr in doc.attributes: if hasattr(attr, "duration"): duration = ...
LastDuration(doc) ==
    LET timed == {i \in DOMAIN doc.attributes :
                     "duration" \in DOMAIN doc.attributes[i]}
    IN  IF timed = {} THEN 0
        ELSE doc.attributes[CHOOSE i \in timed : \A j \in timed : j <= i].duration

\* the if/elif chain of _detect_media, led by the MIME type
DetectedType(media, doc) ==
    IF MimeHas(doc.mime_type, "video") /\ ~MediaRound(media)
    THEN IF HasAttr(doc, "DocumentAttributeAnimated") THEN "gif"
         ELSE IF HasAttr(doc, "DocumentAttributeVideo")
         THEN IF HasFlag(doc, "DocumentAttributeVideo", "round_message")
              THEN "video_note" ELSE "video"
         ELSE "video"
    ELSE IF MimeHas(doc.mime_type, "audio")
    THEN IF HasAttr(doc, "DocumentAttributeAudio")
         THEN IF HasFlag(doc, "DocumentAttributeAudio", "voice")
              THEN "voice" ELSE "audio"
         ELSE "audio"
    ELSE IF HasAttr(doc, "DocumentAttributeSticker") THEN "sticker"
    ELSE "document"

\* a Python int in a slot that may also hold a string
PyInt(n) == [int |-> n]

\* parser_telethon._detect_media(message) -> (type, filename, size,
\* duration, mime); the photo branch returns the size in the second slot
\* and "" in the third
_detect_media(msg) ==
    LET media == msg.media IN
    IF media = Null THEN <<"", NoName, PyInt(0), PyInt(0), "">>
    ELSE IF media.type = "MessageMediaPhoto" THEN
        LET ph == media.photo
            sz == IF ph # Null /\ ph.sizes # <<>>
                  THEN LET largest == ph.sizes[Len(ph.sizes)]
                       IN  IF largest.has_size THEN largest.size ELSE 0
                  ELSE 0
        IN  <<"photo", PyInt(sz), NoName, PyInt(0), "image/jpeg">>
    ELSE IF media.type = "MessageMediaDocument" THEN
        LET doc == media.document IN
        IF doc = Null THEN <<"document", NoName, PyInt(0), PyInt(0), "">>
        ELSE <<DetectedType(media, doc), LastFileName(doc), PyInt(doc.size),
               PyInt(LastDuration(doc)), doc.mime_type>>
    ELSE IF media.type = "MessageMediaContact"
         THEN <<"contact", NoName, PyInt(0), PyInt(0), "">>
    ELSE IF media.type \in {"MessageMediaGeo", "MessageMediaGeoLive"}
         THEN <<"location", NoName, PyInt(0), PyInt(0), "">>
    ELSE IF media.type = "MessageMediaPoll"
         THEN <<"poll", NoName, PyInt(0), PyInt(0), "">>
    ELSE IF media.type = "MessageMediaVenue"
         THEN <<"venue", NoName, PyInt(0), PyInt(0), "">>
    ELSE IF media.type = "MessageMediaWebPage"
         THEN <<"webpage", NoName, PyInt(0), PyInt(0),
                IF "webpage" \in DOMAIN media THEN media.webpage.url ELSE "">>
    ELSE <<"other", NoName, PyInt(0), PyInt(0), "">>

\* the attribute flags of a document: which attributes it carries, and the
\* round_message / voice flag of its video / audio attribute
DocFlags ==
    {f \in [sticker : BOOLEAN, animated : BOOLEAN, video : BOOLEAN,
            round : BOOLEAN, audio : BOOLEAN, voice : BOOLEAN] :
        /\ f.round => f.video
        /\ f.voice => f.audio}

\* the attribute list with these flags
AttributesOf(f) ==
    (IF f.sticker
     THEN <<DocAttr("DocumentAttributeSticker", NoName, FALSE, FALSE)>>
     ELSE <<>>)
    \o (IF f.animated
        THEN <<DocAttr("DocumentAttributeAnimated", NoName, FALSE, FALSE)>>
        ELSE <<>>)
    \o (IF f.video
        THEN <<DocAttr("DocumentAttributeVideo", NoName, f.round, FALSE)
                 @@ ("duration" :> 3)>>
        ELSE <<>>)
    \o (IF f.audio
        THEN <<DocAttr("DocumentAttributeAudio", NoName, FALSE, f.voice)
                 @@ ("duration" :> 3)>>
        ELSE <<>>)

DocMimes == {"", "video/mp4", "video/webm", "audio/ogg", "image/webp",
             "application/pdf"}

\* a document message with these flags and this MIME type; round is the
\* flag of the media itself
DocMessage(f, mime, round) ==
    [id |-> 7, grouped_id |-> Null, chat_username |-> "",
     media |-> TlMedia("MessageMediaDocument", Null,
                       [size |-> 1, mime_type |-> mime,
                        attributes |-> AttributesOf(f)])
               @@ ("round" :> round)]

InitDetect ==
    /\ entry = "_detect_media"
    /\ engine = "telethon"
    /\ EngineIdle
    /\ \E f \in DocFlags, mime \in DocMimes, round \in BOOLEAN :
          args = [message |-> DocMessage(f, mime, round), flags |-> f,
                  mime |-> mime]
    /\ retval = <<>>
    /\ pc = "idle"
    /\ outcome = "pending"

\* the functions applied so far
Applied == {retval[i].fn : i \in DOMAIN retval}

\* media_type, approx_size, suggested_name = _get_media_meta(message)
GetMediaMeta ==
    /\ entry = "_detect_media" /\ "_get_media_meta" \notin Applied
    /\ retval' = Append(retval,
                        [fn |-> "_get_media_meta",
                         type |-> _get_media_meta_telethon(args.message)[1]])
    /\ pc' = IF Len(retval) = 1 THEN "done" ELSE "classifying"
    /\ outcome' = IF Len(retval) = 1 THEN "returned" ELSE "pending"
    /\ UNCHANGED <<engine, entry, engineVars, args>>

\* mtype, mname, msize, mdur, mmime = _detect_media(message)
DetectMedia ==
    /\ entry = "_detect_media" /\ "_detect_media" \notin Applied
    /\ retval' = Append(retval,
                        [fn |-> "_detect_media",
                         type |-> _detect_media(args.message)[1]])
    /\ pc' = IF Len(retval) = 1 THEN "done" ELSE "classifying"
    /\ outcome' = IF Len(retval) = 1 THEN "returned" ELSE "pending"
    /\ UNCHANGED <<engine, entry, engineVars, args>>

NextDetect ==
    \/ GetMediaMeta
    \/ DetectMedia

SpecDetect == InitDetect /\ [][NextDetect]_vars

-----------------------------------------------------------------------------
(* _extract_regex: the five patterns of the parsers, matched character by   *)
(* character. Here a text is a sequence of single characters. The sampled   *)
(* texts are ASCII, so the Cyrillic ranges of RE_HASHTAG never apply.       *)

Letters ==
    {UpperLetters[i] : i \in 1..26} \cup {LowerLetters[i] : i \in 1..26}

Digits == {"0", "1", "2", "3", "4", "5", "6", "7", "8", "9"}

\* a character class: the characters listed, or all but them
Class(chars) == [neg |-> FALSE, chars |-> chars]
NotClass(chars) == [neg |-> TRUE, chars |-> chars]
InClass(c, class) == (c \in class.chars) # class.neg

\* the character at position i (from 1), "" outside the text
CharAt(text, i) == IF i \in 1..Len(text) THEN text[i] ELSE ""

\* class+ matched greedily from position i: how many characters it takes
RunLen(text, i, class) ==
    CHOOSE n \in 0..Len(text) :
        /\ \A k \in 0..(n - 1) :
              i + k <= Len(text) /\ InClass(text[i + k], class)
        /\ ~(i + n <= Len(text) /\ InClass(text[i + n], class))

\* RE_URL = https?://[^\s<>"']+ with re.I; the position after the match
\* that starts at i, 0 when there is none
UrlEnd(text, i) ==
    LET c(k) == str_lower(CharAt(text, i + k))
        s    == IF c(4) = "s" THEN 1 ELSE 0
        body == i + 7 + s
        n    == RunLen(text, body, NotClass({" ", "<", ">", "\"", "'"}))
    IN  IF /\ c(0) = "h" /\ c(1) = "t" /\ c(2) = "t" /\ c(3) = "p"
           /\ c(4 + s) = ":" /\ c(5 + s) = "/" /\ c(6 + s) = "/"
           /\ n >= 1
        THEN body + n ELSE 0

\* RE_HASHTAG = #[A-Za-z<Cyrillic>0-9_]+
HashtagEnd(text, i) ==
    LET n == RunLen(text, i + 1, Class(Letters \cup Digits \cup {"_"}))
    IN  IF CharAt(text, i) = "#" /\ n >= 1 THEN i + 1 + n ELSE 0

\* (mutant) a mention needs six characters after the @
MentionEnd_six_or_more(text, i) ==
    LET n == RunLen(text, i + 1, Class(Letters \cup Digits \cup {"_"}))
    IN  IF CharAt(text, i) = "@" /\ n >= 6 THEN i + 1 + n ELSE 0

\* RE_MENTION = @[A-Za-z0-9_]{3,}
MentionEnd(text, i) ==
    LET n == RunLen(text, i + 1, Class(Letters \cup Digits \cup {"_"}))
    IN  IF CharAt(text, i) = "@" /\ n >= 3 THEN i + 1 + n ELSE 0

\* RE_EMAIL = [a-zA-Z0-9_.+-]+@[a-zA-Z0-9-]+\.[a-zA-Z0-9-.]+
\* "@" lies outside the first class and "." outside the second, so each
\* run is the greedy one
EmailEnd(text, i) ==
    LET l    == RunLen(text, i, Class(Letters \cup Digits \cup {"_", ".", "+", "-"}))
        dom  == i + l + 1
        d    == RunLen(text, dom, Class(Letters \cup Digits \cup {"-"}))
        tail == dom + d + 1
        t    == RunLen(text, tail, Class(Letters \cup Digits \cup {"-", "."}))
    IN  IF /\ l >= 1 /\ CharAt(text, i + l) = "@"
           /\ d >= 1 /\ CharAt(text, dom + d) = "."
           /\ t >= 1
        THEN tail + t ELSE 0

\* RE_PHONE = \+?[(]?[0-9]{1,4}[)]?[-\s./0-9]{6,15}: the digit group is
\* the longest of 4..1 digits after which the rest still matches
PhoneEnd(text, i) ==
    LET plus  == IF CharAt(text, i) = "+" THEN 1 ELSE 0
        paren == IF CharAt(text, i + plus) = "(" THEN 1 ELSE 0
        d0    == i + plus + paren
        r     == RunLen(text, d0, Class(Digits))
        close(k) == IF CharAt(text, d0 + k) = ")" THEN 1 ELSE 0
        rest(k)  == RunLen(text, d0 + k + close(k),
                           Class(Digits \cup {"-", " ", ".", "/"}))
        ks    == {k \in 1..4 : k <= r /\ rest(k) >= 6}
    IN  IF ks = {} THEN 0
        ELSE LET k == CHOOSE x \in ks : \A y \in ks : y <= x
             IN  d0 + k + close(k) + (IF rest(k) > 15 THEN 15 ELSE rest(k))

\* the position after the match of pattern re that starts at i, or 0
MatchEnd(re, text, i) ==
    CASE re = "RE_URL"     -> UrlEnd(text, i)
      [] re = "RE_HASHTAG" -> HashtagEnd(text, i)
      [] re = "RE_MENTION" -> MentionEnd(text, i)
      [] re = "RE_EMAIL"   -> EmailEnd(text, i)
      [] re = "RE_PHONE"   -> PhoneEnd(text, i)

\* re.findall(text) from position i on: leftmost matches, none overlapping
RECURSIVE findall_from(_, _, _)
findall_from(re, text, i) ==
    IF i > Len(text) THEN <<>>
    ELSE LET e == MatchEnd(re, text, i)
         IN  IF e = 0 THEN findall_from(re, text, i + 1)
             ELSE <<SubSeq(text, i, e - 1)>> \o findall_from(re, text, e)

findall(re, text) == findall_from(re, text, 1)

\* _extract_regex(text)
_extract_regex(text) ==
    [urls     |-> findall("RE_URL", text),
     hashtags |-> findall("RE_HASHTAG", text),
     mentions |-> findall("RE_MENTION", text),
     emails   |-> findall("RE_EMAIL", text),
     phones   |-> findall("RE_PHONE", text)]

\* parse_message: urls = _merge(ent["urls"], reg["urls"]), and so on for
\* hashtags, mentions, emails and phones
MergedFields(ent, reg) ==
    [k \in {"urls", "hashtags", "mentions", "emails", "phones"} |->
        _merge(ent[k], reg[k])]

-----------------------------------------------------------------------------
(* Media metadata: _get_media_meta of both downloaders, and what            *)
(* parse_message stores of _detect_media in the ParsedPost                  *)

\* ParsedPost, its fields on the media, the forward, the extracted lists
\* and the attach step, with the defaults of the dataclass
ParsedPost ==
    [message_id |-> 0, media_type |-> "", media_file_name |-> NoName,
     media_file_size |-> PyInt(0), has_webpage_preview |-> FALSE,
     webpage_url |-> "", forwarded_from |-> <<>>,
     urls |-> <<>>, hashtags |-> <<>>, mentions |-> <<>>, emails |-> <<>>,
     phones |-> <<>>,
     downloaded_path |-> NoPath, download_method |-> "", public_link |-> ""]

\* parser_telethon.parse_message from its last await on: mtype, mname,
\* msize, mdur, mmime = _detect_media(message); a "webpage" type is reset
\* to "" and its URL, kept in the mime slot, goes to webpage_url; then
\* ParsedPost(...) with the merged lists. ent and reg were computed before
\* the first await, fwd is what _resolve_forward returned.
parse_message(msg, ent, reg, fwd) ==
    LET d == _detect_media(msg)
        m == MergedFields(ent, reg)
    IN  [ParsedPost EXCEPT !.message_id = msg.id,
                           !.media_type = IF d[1] = "webpage" THEN "" ELSE d[1],
                           !.media_file_name = d[2],
                           !.media_file_size = d[3],
                           !.has_webpage_preview = (d[1] = "webpage"),
                           !.webpage_url = IF d[1] = "webpage" THEN d[5] ELSE "",
                           !.forwarded_from = fwd,
                           !.urls = m.urls,
                           !.hashtags = m.hashtags,
                           !.mentions = m.mentions,
                           !.emails = m.emails,
                           !.phones = m.phones]

\* message.forward: None, or a forward header with sender_id 5
ForwardKinds == {"none", "sender"}

\* the functions that run parse_message of the Telethon parser
ParseEntries == {"_get_media_meta", "_extract_regex", "on_new_message"}

\* the message handed to parse_message
ParsedMessage == IF entry = "on_new_message" THEN message ELSE args.message

\* what parse_message leaves alone
parseKeeps == <<engine, entry, message, MAX_DOWNLOAD_SIZE, ATTACH_MODE,
                KEEP_FILES, attach_mode, size_limit, parsed_html, pc, result,
                dm_result, calls, disk, outcome, args, saved>>

\* where an exception of parse_message leads: the handler catches it, logs
\* and returns; called alone, parse_message raises
ParseFailed == IF entry = "on_new_message" THEN "returned" ELSE "raised"

\* parse_message is called: text = message.text or "", ent =
\* _extract_entities(text, entities), reg = _extract_regex(text), and the
\* coroutine suspends in message.get_chat()
ParseBegin ==
    /\ entry \in ParseEntries /\ engine = "telethon" /\ hpc = "start"
    /\ retval' = [retval EXCEPT
                    !.ent = _extract_entities(args.text, FALSE, <<>>).buckets,
                    !.reg = _extract_regex(args.text)]
    /\ hpc' = "parse_get_chat"
    /\ UNCHANGED <<parseKeeps, parsed>>

\* chat = await message.get_chat() returns, and the coroutine suspends in
\* message.get_sender(), or it raises
ParseGetChat ==
    /\ entry \in ParseEntries /\ hpc = "parse_get_chat"
    /\ hpc' \in {"parse_get_sender", ParseFailed}
    /\ UNCHANGED <<parseKeeps, parsed, retval>>

\* sender = await message.get_sender() raises, or it returns: a forward
\* with a sender_id suspends once more in client.get_entity, any other
\* message runs on to the ParsedPost
ParseGetSender ==
    /\ entry \in ParseEntries /\ hpc = "parse_get_sender"
    /\ \/ /\ hpc' = ParseFailed
          /\ UNCHANGED parsed
       \/ /\ args.forward = "sender"
          /\ hpc' = "parse_get_entity"
          /\ UNCHANGED parsed
       \/ /\ args.forward = "none"
          /\ parsed' = parse_message(ParsedMessage, retval.ent, retval.reg, <<>>)
          /\ hpc' = "parsed"
    /\ UNCHANGED <<parseKeeps, retval>>

\* _resolve_forward: entity = await client.get_entity(fwd.sender_id) gives
\* a user, whose name is taken, or raises, which is caught and gives
\* "id:<sender_id>"; then the ParsedPost is built
ParseGetEntity ==
    /\ entry \in ParseEntries /\ hpc = "parse_get_entity"
    /\ \E fwd \in {<<"Ann">>, IdLabel(5)} :
         parsed' = parse_message(ParsedMessage, retval.ent, retval.reg, fwd)
    /\ hpc' = "parsed"
    /\ UNCHANGED <<parseKeeps, retval>>

\* the locals of parse_message and the return of _get_media_meta, before
\* either has run
NoLocals == [meta |-> Null, ent |-> Null, reg |-> Null]

\* a resolution entry of a photo; stripped entries have no size
PhotoSize(has_size, size) == [has_size |-> has_size, size |-> size]

\* resolution lists: empty, one entry, two ascending entries, and a list
\* whose last entry has no size
PhotoSizeLists ==
    {<<>>}
    \cup {<<PhotoSize(TRUE, s)>> : s \in Sizes}
    \cup {<<PhotoSize(TRUE, s[1]), PhotoSize(TRUE, s[2])>> :
            s \in {t \in Sizes \X Sizes : t[1] < t[2]}}
    \cup {<<PhotoSize(TRUE, s), PhotoSize(FALSE, 0)>> : s \in Sizes}

PhotoMessages ==
    {TlMessage(id, TlMedia("MessageMediaPhoto", ph, Null), Null, "") :
        id \in MsgIds,
        ph \in {Null} \cup {[sizes |-> l] : l \in PhotoSizeLists}}

\* a voice note that carries a file name of its own
NamedVoice ==
    TlMessage(7, TlMedia("MessageMediaDocument", Null,
                         [size |-> 1, mime_type |-> "audio/ogg",
                          attributes |->
                            <<DocAttr("DocumentAttributeAudio", NoName, FALSE, TRUE),
                              DocAttr("DocumentAttributeFilename",
                                      Name("memo", ".ogg"), FALSE, FALSE)>>]),
              Null, "")

\* Pyrogram messages with one file-bearing media field
PyFileKinds == {"video", "animation", "audio", "voice", "video_note",
                "sticker", "document"}

PyFileMessages ==
    {PyMessage(id, "", k, PyObj(1, n, mime, anim, video)) :
        id \in MsgIds, k \in PyFileKinds, n \in {NoName, ReportPdf},
        mime \in {"", "audio/ogg"}, anim \in BOOLEAN, video \in BOOLEAN}

\* a link preview: MessageMediaWebPage with its webpage, or without one
WebPageMessages ==
    {TlMessage(7, TlMedia("MessageMediaWebPage", Null, Null), Null, ""),
     TlMessage(7, TlMedia("MessageMediaWebPage", Null, Null)
                    @@ ("webpage" :> [url |-> "https://x.co"]), Null, "")}

MetaMessages(eng) ==
    IF eng = "telethon"
    THEN PhotoMessages \cup {NamedVoice} \cup WebPageMessages
         \cup {DocMessage(f, mime, FALSE) : f \in DocFlags, mime \in DocMimes}
    ELSE PyFileMessages

InitMeta ==
    /\ entry = "_get_media_meta"
    /\ engine \in Engines
    /\ AttachIdle
    /\ \E m \in MetaMessages(engine), f \in ForwardKinds :
          args = [message |-> m, text |-> <<>>, forward |-> f]
    /\ retval = NoLocals
    /\ pc = "idle"
    /\ outcome = "pending"
    /\ hpc = "start"
    /\ parsed = Null
    /\ saved = <<>>

\* media_type, approx_size, suggested_name = _get_media_meta(message)
MetaOfMessage ==
    /\ entry = "_get_media_meta" /\ retval.meta = Null
    /\ LET meta == MediaMeta(engine, args.message)
       IN  retval' = [retval EXCEPT
                       !.meta = [type |-> meta[1], size |-> meta[2],
                                 name |-> meta[3]]]
    /\ pc' = "done"
    /\ outcome' = "returned"
    /\ UNCHANGED <<engine, entry, engineVars, args>>

NextMeta ==
    \/ MetaOfMessage
    \/ ParseBegin
    \/ ParseGetChat
    \/ ParseGetSender
    \/ ParseGetEntity

SpecMeta == InitMeta /\ [][NextMeta]_vars

-----------------------------------------------------------------------------
(* Two handler tasks on one event loop: download_media runs for two         *)
(* messages at once, each task suspended at its await of the transport.     *)
(* pc and retval are kept per task; calls and disk are shared.              *)

Tasks == {1, 2}

\* the message ids of the two tasks
TaskIds == <<7, 8>>

\* the messages a task may handle: any downloadable media, in the same chat
TaskMessages(eng, id) ==
    IF eng = "telethon"
    THEN {TlMessage(id, m, Null, "") : m \in TlDownloadable}
    ELSE {PyMessage(id, "", m[1], m[2]) : m \in PyDownloadable}

InitConcurrent ==
    /\ entry = "tasks"
    /\ engine \in Engines
    /\ message = Null
    /\ MAX_DOWNLOAD_SIZE \in Limits
    /\ ATTACH_MODE = "auto"
    /\ KEEP_FILES = TRUE
    /\ attach_mode = ""
    /\ size_limit = 0
    /\ parsed_html = <<>>
    /\ result = MediaResult
    /\ dm_result = Null
    /\ calls = <<>>
    /\ disk = {}
    /\ hpc = "idle"
    /\ parsed = Null
    /\ saved = <<>>
    /\ \E m1 \in TaskMessages(engine, TaskIds[1]),
          m2 \in TaskMessages(engine, TaskIds[2]) :
          args = [messages |-> <<m1, m2>>]
    /\ pc = [t \in Tasks |-> "idle"]
    /\ outcome = [t \in Tasks |-> "pending"]
    /\ retval = [t \in Tasks |-> Null]

\* what the tasks leave alone
taskKeeps == <<inputs, args, result, dm_result, hpc, parsed, saved>>

\* download_media of task t from its last await before the transport call
\* on: the limit is checked, and the destination is computed and handed to
\* the transport, which starts writing there
TaskToTransport(t) ==
    LET b == DownloadMediaBefore(engine, args.messages[t], size_limit,
                                 MAX_DOWNLOAD_SIZE)
    IN  IF b.download
        THEN /\ calls' = Append(calls,
                                Call("download", "download_media", b.dest,
                                     <<>>, TRUE, "") @@ ("task" :> t))
             /\ pc' = [pc EXCEPT ![t] = "downloading"]
             /\ retval' = [retval EXCEPT ![t] = b.result]
             /\ UNCHANGED outcome
        ELSE /\ pc' = [pc EXCEPT ![t] = "done"]
             /\ outcome' = [outcome EXCEPT ![t] = "returned"]
             /\ retval' = [retval EXCEPT ![t] = b.result]
             /\ UNCHANGED calls

\* task t calls download_media, which runs up to its first await:
\* message.get_chat() in the Telethon module, the transport call in the
\* Pyrogram module
TaskStart(t) ==
    /\ entry = "tasks" /\ pc[t] = "idle"
    /\ IF AwaitsChat(engine, args.messages[t])
       THEN /\ pc' = [pc EXCEPT ![t] = "get_chat"]
            /\ retval' = [retval EXCEPT
                            ![t] = DownloadMediaAtChat(engine, args.messages[t])]
            /\ UNCHANGED <<calls, outcome>>
       ELSE TaskToTransport(t)
    /\ UNCHANGED <<taskKeeps, disk>>

\* chat = await message.get_chat() of task t returns or raises
TaskChat(t) ==
    /\ entry = "tasks" /\ pc[t] = "get_chat"
    /\ \/ /\ pc' = [pc EXCEPT ![t] = "done"]
          /\ outcome' = [outcome EXCEPT ![t] = "raised"]
          /\ UNCHANGED <<calls, retval>>
       \/ TaskToTransport(t)
    /\ UNCHANGED <<taskKeeps, disk>>

\* the transport of task t returns and download_media runs to its return
TaskFinish(t) ==
    /\ entry = "tasks" /\ pc[t] = "downloading"
    /\ LET msg == args.messages[t]
           b   == DownloadMediaBefore(engine, msg, size_limit, MAX_DOWNLOAD_SIZE)
       IN  \E ret \in DownloadReturns(b.dest, msg, b.result.file_size) :
             /\ disk' = IF ret.kind = "path"
                        THEN {f \in disk : f.path # ret.path}
                             \cup {[path |-> ret.path, size |-> ret.size]}
                        ELSE disk
             /\ retval' = [retval EXCEPT
                             ![t] = DownloadMediaAfter(engine, retval[t], ret)]
    /\ pc' = [pc EXCEPT ![t] = "done"]
    /\ outcome' = [outcome EXCEPT ![t] = "returned"]
    /\ UNCHANGED <<taskKeeps, calls>>

NextConcurrent ==
    \E t \in Tasks : TaskStart(t) \/ TaskChat(t) \/ TaskFinish(t)

SpecConcurrent == InitConcurrent /\ [][NextConcurrent]_vars

-----------------------------------------------------------------------------
(* The message handlers: on_new_message of src/parser_telethon.py, which    *)
(* calls download_and_attach, and of src/parser_pyrogram.py, which does     *)
(* not. hpc is the handler's position; while hpc = "attaching" the attach   *)
(* engine above runs, from pc = "idle" to pc = "done".                      *)

\* LOG_CHAT of the environment: unset, or a chat id
LogChats == {"", "-1001"}

\* parser_pyrogram.parse_message_pyrogram: its ParsedPost has no fields on
\* the attach step
parse_message_pyrogram(msg) == [message_id |-> msg.id]

\* message.media of the Telethon message
HasMedia == message.media # Null

InitHandler ==
    /\ entry = "on_new_message"
    /\ engine \in Engines
    /\ message \in Messages(engine)
    /\ MAX_DOWNLOAD_SIZE \in Limits
    /\ ATTACH_MODE \in ModeEnvs
    /\ KEEP_FILES \in BOOLEAN
    /\ attach_mode = ""
    /\ size_limit = 0
    /\ parsed_html = <<>>
    /\ pc = "not_called"
    /\ result = MediaResult
    /\ dm_result = Null
    /\ calls = <<>>
    /\ disk = {}
    /\ outcome = "pending"
    /\ \E c \in LogChats, f \in ForwardKinds :
          args = [LOG_CHAT |-> c, text |-> <<>>, forward |-> f]
    /\ retval = NoLocals
    /\ hpc = "start"
    /\ parsed = Null
    /\ saved = <<>>

\* what the handler leaves alone outside the attach engine's own state
handlerKeeps == <<engine, entry, message, MAX_DOWNLOAD_SIZE, ATTACH_MODE,
                  KEEP_FILES, attach_mode, size_limit, args, retval>>

\* pyrogram: try: parsed = parse_message_pyrogram(message), which is no
\* coroutine; except Exception: log, return. The Telethon handler awaits
\* parse_message, whose steps are ParseBegin .. ParseGetEntity.
HandlerParse ==
    /\ entry = "on_new_message" /\ engine = "pyrogram" /\ hpc = "start"
    /\ \/ /\ parsed' = parse_message_pyrogram(message)
          /\ hpc' = "parsed"
       \/ /\ hpc' = "returned"
          /\ UNCHANGED parsed
    /\ UNCHANGED <<handlerKeeps, parsed_html, pc, result, dm_result, calls,
                   disk, outcome, saved>>

\* telethon, LOG_CHAT set and message.media: result = await
\* download_and_attach(client, message, parsed.to_html(), target)
HandlerAttach ==
    /\ entry = "on_new_message" /\ engine = "telethon" /\ hpc = "parsed"
    /\ args.LOG_CHAT # "" /\ HasMedia
    /\ parsed_html' = Html(CaptionLimit)
    /\ pc' = "idle"
    /\ hpc' = "attaching"
    /\ UNCHANGED <<handlerKeeps, result, dm_result, calls, disk, outcome,
                   parsed, saved>>

\* download_and_attach has returned: its result is copied into the post
HandlerCopy ==
    /\ entry = "on_new_message" /\ hpc = "attaching"
    /\ pc = "done" /\ outcome = "returned"
    /\ parsed' = [parsed EXCEPT !.downloaded_path = result.file_path,
                                !.download_method = result.method,
                                !.public_link = result.public_link]
    /\ hpc' = "save"
    /\ UNCHANGED <<handlerKeeps, parsed_html, pc, result, dm_result, calls,
                   disk, outcome, saved>>

\* download_and_attach has raised: the call is in no try block, so the
\* exception leaves the handler
HandlerRaised ==
    /\ entry = "on_new_message" /\ hpc = "attaching"
    /\ pc = "done" /\ outcome = "raised"
    /\ hpc' = "raised"
    /\ UNCHANGED <<handlerKeeps, parsed_html, pc, result, dm_result, calls,
                   disk, outcome, parsed, saved>>

\* telethon, LOG_CHAT set and no media: the summary is sent in a try block
HandlerSendText ==
    /\ entry = "on_new_message" /\ engine = "telethon" /\ hpc = "parsed"
    /\ args.LOG_CHAT # "" /\ ~HasMedia
    /\ \E ok \in BOOLEAN :
         calls' = Append(calls, Call("send_message", "handler", NoPath,
                                     Html(CaptionLimit), ok, ""))
    /\ hpc' = "save"
    /\ UNCHANGED <<handlerKeeps, parsed_html, pc, result, dm_result, disk,
                   outcome, parsed, saved>>

\* telethon, LOG_CHAT unset: print(parsed.to_html())
HandlerPrint ==
    /\ entry = "on_new_message" /\ engine = "telethon" /\ hpc = "parsed"
    /\ args.LOG_CHAT = ""
    /\ hpc' = "save"
    /\ UNCHANGED <<handlerKeeps, parsed_html, pc, result, dm_result, calls,
                   disk, outcome, parsed, saved>>

\* telethon: save_json(parsed), the last statement of the handler
HandlerSave ==
    /\ entry = "on_new_message" /\ engine = "telethon" /\ hpc = "save"
    /\ saved' = Append(saved, parsed)
    /\ hpc' = "returned"
    /\ UNCHANGED <<handlerKeeps, parsed_html, pc, result, dm_result, calls,
                   disk, outcome, parsed>>

\* pyrogram: save_json(parsed), right after parsing
PyrogramSave ==
    /\ entry = "on_new_message" /\ engine = "pyrogram" /\ hpc = "parsed"
    /\ saved' = Append(saved, parsed)
    /\ hpc' = "send"
    /\ UNCHANGED <<handlerKeeps, parsed_html, pc, result, dm_result, calls,
                   disk, outcome, parsed>>

\* pyrogram: the summary is sent in a try block when LOG_CHAT is set, and
\* printed otherwise
PyrogramSend ==
    /\ entry = "on_new_message" /\ engine = "pyrogram" /\ hpc = "send"
    /\ IF args.LOG_CHAT # ""
       THEN \E ok \in BOOLEAN :
              calls' = Append(calls, Call("send_message", "handler", NoPath,
                                          Html(CaptionLimit), ok, ""))
       ELSE UNCHANGED calls
    /\ hpc' = "returned"
    /\ UNCHANGED <<handlerKeeps, parsed_html, pc, result, dm_result, disk,
                   outcome, parsed, saved>>

NextHandler ==
    \/ HandlerParse
    \/ ParseBegin
    \/ ParseGetChat
    \/ ParseGetSender
    \/ ParseGetEntity
    \/ HandlerAttach
    \/ Start
    \/ GetChat
    \/ TransportDownload
    \/ SendNothing
    \/ SendPrimary
    \/ SendFallback
    \/ Cleanup
    \/ HandlerCopy
    \/ HandlerRaised
    \/ HandlerSendText
    \/ HandlerPrint
    \/ HandlerSave
    \/ PyrogramSave
    \/ PyrogramSend

SpecHandler == InitHandler /\ [][NextHandler]_vars

\* every await of the handler completes: the event loop resumes the
\* coroutine whenever it can take a step
SpecHandlerFair == SpecHandler /\ WF_vars(NextHandler)

-----------------------------------------------------------------------------
(* parse_message on sampled texts: the regex extraction and the merge      *)

\* the words of the scenario that the patterns match
W_news == <<"#", "n", "e", "w", "s">>
W_url == <<"h", "t", "t", "p", "s", ":", "/", "/", "x", ".", "c", "o">>
W_durov == <<"@", "d", "u", "r", "o", "v">>

\* the sampled words: those of the scenario, a mention that is too short,
\* an e-mail address, an upper-case URL, a hashtag in another case and a
\* phone number
Words ==
    {W_news, W_url, W_durov,
     <<"C", "h", "e", "c", "k">>,
     <<"a", "t">>,
     <<"a", "n", "d">>,
     <<"@", "a", "b">>,
     <<"a", "@", "b", ".", "c", "o">>,
     <<"H", "T", "T", "P", ":", "/", "/", "X", ".", "C", "O">>,
     <<"#", "N", "e", "w", "s">>,
     <<"8", "-", "8", "0", "0", "-", "5", "5", "5", "3", "5", "3", "5">>}

MaxWords == 2

\* " ".join(words)
RECURSIVE JoinWords(_)
JoinWords(ws) ==
    IF ws = <<>> THEN <<>>
    ELSE IF Len(ws) = 1 THEN ws[1]
    ELSE ws[1] \o <<" ">> \o JoinWords(Tail(ws))

\* 'Check #news at https://x.co and @durov'
ScenarioText ==
    JoinWords(<<<<"C", "h", "e", "c", "k">>, W_news, <<"a", "t">>, W_url,
                <<"a", "n", "d">>, W_durov>>)

RegexTexts ==
    {JoinWords(ws) : ws \in SeqsUpTo(Words, MaxWords)} \cup {ScenarioText}

\* a text message without media
TextMessage == TlMessage(7, Null, Null, "")

InitRegex ==
    /\ entry = "_extract_regex"
    /\ engine = "telethon"
    /\ AttachIdle
    /\ \E text \in RegexTexts, f \in ForwardKinds :
          args = [message |-> TextMessage, text |-> text, forward |-> f]
    /\ retval = NoLocals
    /\ pc = "idle"
    /\ outcome = "pending"
    /\ hpc = "start"
    /\ parsed = Null
    /\ saved = <<>>

NextRegex ==
    \/ ParseBegin
    \/ ParseGetChat
    \/ ParseGetSender
    \/ ParseGetEntity

SpecRegex == InitRegex /\ [][NextRegex]_vars

-----------------------------------------------------------------------------
(* Observations used by the properties *)

Attach == entry = "download_and_attach"
Done == pc = "done"
Returned == pc = "done" /\ outcome = "returned"

CallsOf(ops) == {i \in DOMAIN calls : calls[i].op \in ops}
CallsAt(site) == {i \in DOMAIN calls : calls[i].at = site}
NoDownloadCall == CallsOf({"download"}) = {}
NoFileSend == CallsOf({"send_file"}) = {}

\* the raw media kind of the message, read off its fields
RawKind ==
    IF engine = "telethon"
    THEN IF message.media = Null THEN "none" ELSE message.media.type
    ELSE IF \E k \in PyKinds : message[k] # Null
         THEN CHOOSE k \in PyKinds : message[k] # Null
         ELSE "none"

\* the message belongs to an album (only Telethon messages carry the field)
Album == engine = "telethon" /\ message.grouped_id # Null

\* the chat is public, so a link to the message exists
PublicChat == message.chat_username # ""

\* the approximate size the classifier reports for the message
ApproxSize == MediaMeta(engine, message)[2]

\* the limit in force, written out: size_limit when positive, else the maximum
LimitInForce == IF size_limit > 0 THEN size_limit ELSE MAX_DOWNLOAD_SIZE

\* contact / location / poll / venue (and web page in Telethon) or no media
TerminalKind ==
    RawKind \in {"none", "contact", "location", "poll", "venue",
                 "MessageMediaContact", "MessageMediaGeo", "MessageMediaGeoLive",
                 "MessageMediaPoll", "MessageMediaVenue", "MessageMediaWebPage"}

\* the first CaptionLimit characters of the summary, an ellipsis after them
\* when the summary is longer
CutSummary ==
    IF Len(parsed_html) > CaptionLimit
    THEN SubSeq(parsed_html, 1, CaptionLimit) \o <<Ellipsis>>
    ELSE parsed_html

\* the link line of the message, written out
TheLinkLine ==
    "\n\n<a href=\"https://t.me/" \o message.chat_username \o "/"
        \o ToString(message.id) \o "\">Original</a>"

\* how many pieces of a text are the link line
LinkLines(text) == Cardinality({i \in DOMAIN text : text[i] = TheLinkLine})

\* every send_message issued so far went through
AllTextSendsOk == \A i \in CallsOf({"send_message"}) : calls[i].ok

\* every send issued so far went through
AllSendsOk == \A i \in CallsOf({"send_message", "send_file"}) : calls[i].ok

\* some send to the destination went through
SomeSendOk == \E i \in CallsOf({"send_message", "send_file"}) : calls[i].ok

\* the transport was asked for the file and saved none (it raised or
\* returned no path): nothing is on disk and nothing was removed from it
DownloadSavedNothing ==
    /\ CallsOf({"download"}) # {}
    /\ disk = {}
    /\ CallsOf({"remove"}) = {}

\* the transport saved a file for this message
FileDownloaded == dm_result # Null /\ dm_result.file_path # NoPath

-----------------------------------------------------------------------------
(* Properties *)

\* C1: a downloadable item whose approximate size exceeds a positive
\* effective limit is never downloaded, and download_media returns "link"
\* for a public chat and "none" otherwise.
C1_OversizeSkipsDownload ==
    (~TerminalKind /\ LimitInForce > 0 /\ ApproxSize > LimitInForce) =>
        /\ NoDownloadCall
        /\ dm_result # Null =>
              dm_result.method = (IF PublicChat THEN "link" ELSE "none")

C1_Witness ==
    /\ entry = "download_media" /\ Returned
    /\ ~TerminalKind /\ size_limit > 0 /\ ApproxSize > size_limit
    /\ result.method = "link"

\* C2: a contact, location, poll, venue (web page in Telethon) or media-less
\* message is never downloaded and never sent as a file, and the result
\* download_and_attach returns for it has method "none", in every mode.
C2_TerminalKindsGetNone ==
    (Attach /\ TerminalKind) =>
        /\ NoDownloadCall
        /\ NoFileSend
        /\ Returned => result.method = "none"

C2_Witness ==
    /\ Attach /\ Returned /\ RawKind \in {"venue", "MessageMediaVenue"}
    /\ Mode(attach_mode, ATTACH_MODE) = "both"
    /\ MAX_DOWNLOAD_SIZE = 0
    /\ result.method = "none"
    /\ calls # <<>>

\* C3: an album item handed to the Telethon download_and_attach causes no
\* transport download, and its result has method "none".
C3_AlbumNeverDownloads ==
    (Attach /\ Album) =>
        /\ NoDownloadCall
        /\ Returned => result.method = "none"


\* C4 (as stated): whenever download_and_attach returns for a message with
\* media and no text send has failed, some send to the destination has
\* succeeded.
C4_SomethingAlwaysSent ==
    (Attach /\ RawKind # "none" /\ Returned /\ AllTextSendsOk) => SomeSendOk

\* C4 (amended): the same, for every message that is not an album item.
C4_SomethingSentUnlessAlbum ==
    (Attach /\ RawKind # "none" /\ ~Album /\ Returned /\ AllTextSendsOk)
        => SomeSendOk

\* the file was downloaded, its send raised, and the summary sent in its
\* place went through: no text send failed, and the chat got the summary
C4_Witness ==
    /\ Attach /\ Returned /\ ~Album /\ RawKind # "none"
    /\ AllTextSendsOk
    /\ \E i \in CallsAt("primary") :
          calls[i].op = "send_file" /\ ~calls[i].ok
    /\ \E i \in CallsAt("fallback") :
          calls[i].op = "send_message" /\ calls[i].ok
    /\ SomeSendOk

\* C5: whatever the transport calls do, download_and_attach ends by
\* returning its result; no exception of a download or send call escapes.
C5_NothingEscapes ==
    (Attach /\ Done) => outcome = "returned"

\* C6: when the primary send raises, result.error is non-empty, exactly one
\* further send is attempted, of the summary alone, and the call still
\* returns.
C6_PrimaryFailureFallsBack ==
    (Attach /\ pc \in {"cleanup", "done"}
            /\ \E i \in CallsAt("primary") : ~calls[i].ok) =>
        /\ result.error # ""
        /\ Cardinality(CallsAt("fallback")) = 1
        /\ \A i \in CallsAt("fallback") :
              /\ calls[i].op = "send_message"
              /\ calls[i].text = parsed_html
              /\ i = Len(calls) \/ calls[Len(calls)].op = "remove"
        /\ outcome # "raised"

\* C7: when the transport download raises or returns no path,
\* download_media returns error non-empty, file_path unset and method
\* "link" for a public chat, "none" otherwise; for a private chat
\* download_and_attach then sends the summary alone and returns method
\* "none" with error non-empty.
C7_DownloadFailureDegrades ==
    (dm_result # Null /\ DownloadSavedNothing) =>
        /\ dm_result.error # ""
        /\ dm_result.file_path = NoPath
        /\ dm_result.method = (IF PublicChat THEN "link" ELSE "none")
        /\ (Attach /\ ~PublicChat /\ Returned) =>
              /\ \E i \in CallsOf({"send_message"}) :
                    calls[i].text = parsed_html
              /\ result.method = "none"
              /\ result.error # ""

\* C8: in mode "both", with a file downloaded from a public chat, what is
\* sent is the file, with the caption "summary (cut to 900 characters and an
\* ellipsis when longer), then the link line", and once it is delivered the
\* result has method "both".
C8_BothSendsFileWithLink ==
    (Attach /\ Mode(attach_mode, ATTACH_MODE) = "both"
            /\ FileDownloaded /\ PublicChat) =>
        \A i \in CallsAt("primary") :
            /\ calls[i].op = "send_file"
            /\ calls[i].text = CutSummary \o <<TheLinkLine>>
            /\ (calls[i].ok /\ Returned) => result.method = "both"

\* C9 (as stated): in mode "link", when download_media's method is not
\* "none", no file is ever sent, a text message holding the link line is
\* sent, and the result has method "link".
C9_LinkModeSendsLink ==
    (Attach /\ Mode(attach_mode, ATTACH_MODE) = "link" /\ dm_result # Null
            /\ dm_result.method # "none") =>
        /\ NoFileSend
        /\ (Returned /\ AllSendsOk) =>
              /\ \E i \in CallsOf({"send_message"}) :
                    LinkLines(calls[i].text) >= 1
              /\ result.method = "link"

\* C9 (amended): in mode "link", when download_media's method is not "none"
\* and the message is no album item, no file is ever sent, even when one
\* was downloaded; the one message sent is a text that starts with the
\* whole summary and holds the link line once for a public chat and not at
\* all for a private one, and when it is delivered the result has method
\* "link" for a public chat and "none" for a private one.
C9_LinkModeSendsText ==
    (Attach /\ Mode(attach_mode, ATTACH_MODE) = "link" /\ dm_result # Null
            /\ dm_result.method # "none" /\ ~Album) =>
        /\ NoFileSend
        /\ pc \in {"cleanup", "done"} => CallsAt("primary") # {}
        /\ \A i \in CallsAt("primary") :
              /\ calls[i].op = "send_message"
              /\ SubSeq(calls[i].text, 1, Len(parsed_html)) = parsed_html
              /\ LinkLines(calls[i].text) = (IF PublicChat THEN 1 ELSE 0)
              /\ (calls[i].ok /\ Returned) =>
                    result.method = (IF PublicChat THEN "link" ELSE "none")

C9_Witness ==
    /\ Attach /\ Mode(attach_mode, ATTACH_MODE) = "link" /\ Returned
    /\ FileDownloaded /\ ~PublicChat /\ ~Album
    /\ \E i \in CallsAt("primary") : calls[i].ok
    /\ result.method = "none"

\* what C10 says of a returned call in which every send went through:
\* with a file downloaded, a file send whose caption holds no link line and
\* method "file"; without one, no file send, a text send, and method "link"
\* when the result carries a public link, "none" otherwise
FileOrFallBack ==
    IF FileDownloaded
    THEN /\ \E i \in CallsOf({"send_file"}) : LinkLines(calls[i].text) = 0
         /\ result.method = "file"
    ELSE /\ NoFileSend
         /\ CallsOf({"send_message"}) # {}
         /\ result.method = (IF result.public_link # "" THEN "link" ELSE "none")

\* C10 (as stated): in modes "file", "auto" and any unrecognised mode a
\* downloaded file is sent with a caption free of the link line and the
\* method is "file"; without a file a text message is sent instead and the
\* method is "link" or "none".
C10_FileElseLink ==
    (Attach /\ Mode(attach_mode, ATTACH_MODE) \notin {"link", "both"}
            /\ Returned /\ AllSendsOk) => FileOrFallBack

\* C10 (amended): the same, for every message that is not an album item.
C10_FileElseLinkUnlessAlbum ==
    (Attach /\ Mode(attach_mode, ATTACH_MODE) \notin {"link", "both"}
            /\ ~Album /\ Returned /\ AllSendsOk) => FileOrFallBack

C10_Witness ==
    /\ Attach /\ Mode(attach_mode, ATTACH_MODE) = "zip" /\ Returned /\ ~Album
    /\ FileDownloaded /\ PublicChat
    /\ \E i \in CallsOf({"send_file"}) : calls[i].ok
    /\ result.method = "file"

\* the send calls of the transport
Sends == {"send_message", "send_file"}

\* C11: the caption of every file send starts with the summary cut to its
\* first 900 characters and an ellipsis when it is longer (the whole
\* summary otherwise), and whatever follows is link lines, left whole: the
\* cut is made before a link line is appended.
C11_CaptionCutBeforeLink ==
    \A i \in CallsOf({"send_file"}) :
        LET text == calls[i].text
            n == Len(CutSummary)
        IN  /\ Len(text) >= n
            /\ SubSeq(text, 1, n) = CutSummary
            /\ \A k \in (n + 1)..Len(text) : text[k] = TheLinkLine

C11_Witness ==
    /\ Len(parsed_html) > CaptionLimit
    /\ \E i \in CallsOf({"send_file"}) :
          /\ Len(calls[i].text) > CaptionLimit + 1
          /\ calls[i].text[CaptionLimit + 1] = Ellipsis
          /\ calls[i].text[CaptionLimit + 2] = TheLinkLine

\* C12: when KEEP_FILES is false and a file was downloaded,
\* download_and_attach has tried to remove that file by the time it
\* returns, on every return path; when KEEP_FILES is true no removal is
\* tried; and a failed removal does not raise.
C12_ArtifactRemovedUnlessKept ==
    Attach =>
        /\ (Done /\ ~KEEP_FILES /\ FileDownloaded) =>
              \E i \in CallsOf({"remove"}) : calls[i].path = dm_result.file_path
        /\ KEEP_FILES => CallsOf({"remove"}) = {}
        /\ (Done /\ \E i \in CallsOf({"remove"}) : ~calls[i].ok) =>
              outcome = "returned"

\* C13: once the transport has saved a file, the result of download_media
\* carries the size of the file on disk and the base name of the path it
\* was saved at, whatever the estimate and the suggested name were, and
\* download_and_attach returns them unchanged.
C13_ResultReflectsSavedFile ==
    \A f \in disk :
        /\ dm_result # Null
        /\ dm_result.file_path = f.path
        /\ dm_result.file_size = f.size
        /\ dm_result.file_name = f.path.name
        /\ Returned => /\ result.file_size = f.size
                       /\ result.file_name = f.path.name

C13_Witness ==
    /\ Returned
    /\ \E f \in disk :
          /\ f.size # ApproxSize
          /\ MediaMeta(engine, message)[3] # NoName
          /\ f.path.name # MediaMeta(engine, message)[3]
          /\ result.file_size = f.size
          /\ result.file_name = f.path.name

\* C14: within one call the steps come in order: every send is issued
\* after the download attempt has come back, and the removal of the file is
\* tried only after the last send attempt, primary or fallback.
C14_StepsInOrder ==
    /\ pc \in {"idle", "downloading"} => CallsOf(Sends \cup {"remove"}) = {}
    /\ \A i, j \in DOMAIN calls :
          /\ (calls[i].op = "download" /\ calls[j].op \in Sends) => i < j
          /\ (calls[i].op \in Sends /\ calls[j].op = "remove") => i < j
    /\ pc \in {"send_none", "send_primary", "send_fallback"} =>
          CallsOf({"remove"}) = {}

C14_Witness ==
    /\ Attach /\ Returned
    /\ Len(calls) = 4
    /\ calls[1].op = "download"
    /\ calls[2].at = "primary" /\ ~calls[2].ok
    /\ calls[3].at = "fallback"
    /\ calls[4].op = "remove"

\* C15: one call of download_and_attach issues at most one download, one
\* primary send and one fallback send, and never repeats a failed call with
\* the same arguments.
C15_NoRepeat ==
    Attach =>
        /\ Cardinality(CallsOf({"download"})) <= 1
        /\ Cardinality(CallsAt("primary")) <= 1
        /\ Cardinality(CallsAt("fallback")) <= 1
        /\ \A i, j \in DOMAIN calls :
              (i < j /\ ~calls[i].ok) =>
                  ~ /\ calls[j].op = calls[i].op
                    /\ calls[j].path = calls[i].path
                    /\ calls[j].text = calls[i].text

\* the entries of s at the indices idx, in their order in s
SubSeqAt(s, idx) ==
    [n \in 1..Cardinality(idx) |->
        s[CHOOSE i \in idx : Cardinality({j \in idx : j <= i}) = n]]

\* C16: merging the output of _merge again, with the empty list or with
\* itself, gives that output back.
C16_MergeIdempotent ==
    entry = "_merge" =>
        \A i \in 2..Len(retval) :
            /\ retval[i].a = retval[1].out
            /\ retval[i].b \in {<<>>, retval[1].out}
            /\ retval[i].out = retval[1].out

C16_Witness ==
    /\ entry = "_merge" /\ Len(retval) = 2
    /\ retval[1].out # <<>>
    /\ Len(retval[1].out) < Len(args.a) + Len(args.b)
    /\ retval[2].b = retval[1].out
    /\ retval[2].out = retval[1].out

\* the case-insensitive trimmed value of an entry
TrimmedLower(item) == lower(str_strip(item))

\* the places of a list that hold the first occurrence of their value
FirstOccurrences(c) ==
    {i \in DOMAIN c :
        \A j \in 1..(i - 1) : TrimmedLower(c[j]) # TrimmedLower(c[i])}

\* the same, without the places whose value is empty
FirstNonBlank(c) == {i \in FirstOccurrences(c) : TrimmedLower(c[i]) # <<>>}

\* the entries of c at the places idx, trimmed, casing untouched
TrimmedAt(c, idx) == SubSeqAt([i \in DOMAIN c |-> str_strip(c[i])], idx)

\* no two entries of out share a value, and no entry whose value the
\* structured list lacks comes before one whose value it has
DistinctStructuredFirst(out, a) ==
    /\ \A m, n \in DOMAIN out :
          TrimmedLower(out[m]) = TrimmedLower(out[n]) => m = n
    /\ \A m, n \in DOMAIN out :
          (m < n /\ \E i \in DOMAIN a : TrimmedLower(a[i]) = TrimmedLower(out[n]))
              => \E i \in DOMAIN a : TrimmedLower(a[i]) = TrimmedLower(out[m])

\* C17 (as stated): _merge(a, b) is a followed by b with only the first
\* occurrence of each case-insensitive trimmed value kept, in order and in
\* its own casing; so no two entries share a value and structured entries
\* come first.
C17_MergeKeepsFirst ==
    (entry = "_merge" /\ retval # <<>>) =>
        /\ retval[1].out = TrimmedAt(args.a \o args.b,
                                     FirstOccurrences(args.a \o args.b))
        /\ DistinctStructuredFirst(retval[1].out, args.a)

\* C17 (amended): the same, where entries that are empty after trimming
\* are dropped and the kept entries are emitted trimmed.
C17_MergeKeepsFirstNonBlank ==
    (entry = "_merge" /\ retval # <<>>) =>
        /\ retval[1].out = TrimmedAt(args.a \o args.b,
                                     FirstNonBlank(args.a \o args.b))
        /\ DistinctStructuredFirst(retval[1].out, args.a)

C17_Witness ==
    /\ entry = "_merge" /\ retval # <<>>
    /\ args.a = <<<<" ">>, <<"#Tag">>>>
    /\ args.b = <<<<"#tag", " ">>>>
    /\ retval[1].out = <<<<"#Tag">>>>

\* the kind table of the parser in use
KindMap == IF engine = "telethon" THEN _ENTITY_MAP ELSE _PYR_MAP

\* the annotations of the call that the table sends to bucket k
BucketEntities(k) ==
    SubSeqAt(args.entities,
             {i \in DOMAIN args.entities :
                 /\ args.entities[i].type \in DOMAIN KindMap
                 /\ KindMap[args.entities[i].type] = k})

IsTextLink(ent) == ent.type \in {"MessageEntityTextUrl", "TEXT_LINK"}
IsMentionById(ent) == ent.type \in {"MessageEntityMentionName", "TEXT_MENTION"}

\* the part of the text the annotation covers
Fragment(ent) ==
    SubSeq(args.text, ent.offset + 1,
           IF ent.offset + ent.length < Len(args.text)
           THEN ent.offset + ent.length ELSE Len(args.text))

\* the display name an annotation gives access to (none in Telethon, whose
\* annotation holds the identifier alone)
DisplayName(ent) ==
    IF engine = "pyrogram" /\ ent.user # Null
    THEN str_strip(ent.user.first_name \o <<" ">> \o ent.user.last_name)
    ELSE <<>>

\* the value C18 gives an annotation: the URL of a text link, the display
\* name or an "id:..." label of a mention by identity, else the fragment
StatedValue(ent, v) ==
    IF IsTextLink(ent) THEN v = ent.url
    ELSE IF IsMentionById(ent)
    THEN IF DisplayName(ent) # <<>> THEN v = DisplayName(ent)
         ELSE Len(v) = 2 /\ v[1] = "id:"
    ELSE v = Fragment(ent)

\* the same with the fallbacks of the code: a text link without a URL and a
\* text mention without a resolved user contribute the fragment
FallbackValue(ent, v) ==
    IF IsTextLink(ent) /\ ent.url # <<>> THEN v = ent.url
    ELSE IF ent.type = "MessageEntityMentionName"
    THEN v = <<"id:", ToString(ent.user_id)>>
    ELSE IF ent.type = "TEXT_MENTION" /\ ent.user # Null
    THEN IF DisplayName(ent) # <<>> THEN v = DisplayName(ent)
         ELSE v = <<"id:", ToString(ent.user.id)>>
    ELSE v = Fragment(ent)

\* a run of the extractor over a non-empty text has returned
Extraction == entry = "_extract_entities" /\ pc = "done"
ExtractionReturned ==
    Extraction /\ outcome = "returned" /\ args.text # <<>>

\* C18 (as stated): annotations of unknown kind are ignored; every other
\* one puts one value in the bucket of the kind table: the URL for a text
\* link, the display name or "id:<identifier>" for a mention by identity,
\* the covered fragment otherwise.
C18_PayloadOverFragment ==
    ExtractionReturned =>
        \A k \in _ALL_BUCKETS :
            /\ Len(retval[k]) = Len(BucketEntities(k))
            /\ \A n \in DOMAIN retval[k] :
                  StatedValue(BucketEntities(k)[n], retval[k][n])

\* C18 (amended): the same, where a text link without a URL and a mention
\* by identity without a resolved user contribute the covered fragment.
C18_PayloadElseFragment ==
    ExtractionReturned =>
        \A k \in _ALL_BUCKETS :
            /\ Len(retval[k]) = Len(BucketEntities(k))
            /\ \A n \in DOMAIN retval[k] :
                  FallbackValue(BucketEntities(k)[n], retval[k][n])

C18_Witness ==
    /\ ExtractionReturned /\ engine = "pyrogram"
    /\ Len(args.entities) = 2
    /\ args.entities[1].type = "TEXT_MENTION" /\ args.entities[1].user = Null
    /\ args.entities[2].type = "TEXT_LINK" /\ args.entities[2].url # <<>>
    /\ retval["mentions"] = <<<<"c", "d">>>>
    /\ retval["urls"] = <<SampleUrl>>

\* an annotation without an offset, or reaching outside the text
Malformed(ent) ==
    \/ ~ent.has_offset
    \/ ent.offset + ent.length > Len(args.text)

\* C19: the extractor never raises; without annotations every one of the
\* eleven buckets is there and empty; a malformed annotation adds nothing
\* to any bucket, and the well-formed ones around it are all extracted.
C19_ExtractionNeverRaises ==
    Extraction =>
        /\ outcome = "returned"
        /\ DOMAIN retval = _ALL_BUCKETS
        /\ Cardinality(_ALL_BUCKETS) = 11
        /\ (args.is_none \/ args.entities = <<>>) =>
              \A k \in _ALL_BUCKETS : retval[k] = <<>>
        /\ \A k \in _ALL_BUCKETS :
              Len(retval[k]) =
                  Cardinality({n \in DOMAIN BucketEntities(k) :
                                  ~Malformed(BucketEntities(k)[n])})

\* the type the fixed priority gives to attribute flags: sticker, then
\* gif, then video (video_note when round), then audio (voice when the
\* voice flag is set), then document
PriorityType(f) ==
    IF f.sticker THEN "sticker"
    ELSE IF f.animated THEN "gif"
    ELSE IF f.video THEN (IF f.round THEN "video_note" ELSE "video")
    ELSE IF f.audio THEN (IF f.voice THEN "voice" ELSE "audio")
    ELSE "document"

\* C20: whatever the MIME type, both classifiers give a document the type
\* its attribute flags have under the priority sticker > gif > video /
\* video_note > audio / voice > document.
C20_AttributePriority ==
    entry = "_detect_media" =>
        \A i \in DOMAIN retval : retval[i].type = PriorityType(args.flags)

\* C25: with size_limit = 0 the size check never skips the download of a
\* downloadable item, whatever its approximate size and whatever the
\* configured maximum.
C25_ZeroLimitIsUnlimited ==
    (size_limit = 0 /\ dm_result # Null /\ message # Null /\ ~TerminalKind)
        => ~NoDownloadCall

\* C27: when download_and_attach returns with method "file" or "both", a
\* file send of that call has succeeded.
C27_MethodReflectsDelivery ==
    (Attach /\ Returned /\ result.method \in {"file", "both"}) =>
        \E i \in CallsOf({"send_file"}) : calls[i].ok

\* C28: every caption and every text message sent holds the link line at
\* most once, and exactly once when a file is sent in mode "both" from a
\* public chat.
C28_LinkLineAtMostOnce ==
    Attach =>
        \A i \in CallsOf(Sends) :
            /\ LinkLines(calls[i].text) <= 1
            /\ (calls[i].op = "send_file" /\ PublicChat
                  /\ Mode(attach_mode, ATTACH_MODE) = "both")
                  => LinkLines(calls[i].text) = 1

\* the method of a MediaResult agrees with its other fields
MethodConsistent(res) ==
    /\ res.method = "both" => (res.file_path # NoPath /\ res.public_link # "")
    /\ res.method = "file" => res.file_path # NoPath
    /\ res.method = "link" => res.public_link # ""
    /\ res.method = "none" => res.file_path = NoPath

\* C29: in every result that download_media or download_and_attach
\* returns, "both" comes with a file path and a public link, "file" with a
\* file path, "link" with a public link, and "none" with no file path.
C29_MethodMatchesFields ==
    /\ (dm_result # Null /\ message # Null) => MethodConsistent(dm_result)
    /\ (Attach /\ Returned) => MethodConsistent(result)

\* the photo of the message whose metadata is read
PhotoCase ==
    /\ entry = "_get_media_meta" /\ engine = "telethon"
    /\ args.message.media.type = "MessageMediaPhoto"

\* the size of the last entry of the resolution list, 0 without one
LargestSize(photo) ==
    IF photo = Null THEN 0
    ELSE IF Len(photo.sizes) = 0 THEN 0
    ELSE IF photo.sizes[Len(photo.sizes)].has_size
         THEN photo.sizes[Len(photo.sizes)].size
         ELSE 0

\* C21: a photo is classified 'photo' and its size, that of the last entry
\* of its resolution list (0 when the list is empty or the entry has no
\* size), is what the size position of the result holds and what
\* ParsedPost.media_file_size holds.
C21_PhotoSizeInSizeSlot ==
    PhotoCase =>
        /\ retval.meta # Null =>
              /\ retval.meta.type = "photo"
              /\ retval.meta.size = LargestSize(args.message.media.photo)
        /\ parsed # Null =>
              /\ parsed.media_type = "photo"
              /\ parsed.media_file_size
                    = PyInt(LargestSize(args.message.media.photo))

\* the media of the message is a file without a name of its own
NamelessFile ==
    /\ entry = "_get_media_meta"
    /\ IF engine = "telethon"
       THEN /\ args.message.media.type = "MessageMediaDocument"
            /\ \A i \in DOMAIN args.message.media.document.attributes :
                  args.message.media.document.attributes[i].file_name = NoName
       ELSE \E k \in PyFileKinds :
              /\ args.message[k] # Null
              /\ args.message[k].file_name = NoName

\* C22: a file without a name that is classified to a type other than
\* "document" is given the name "<type>_<message id><extension>"; a
\* document with MIME audio/ogg and the voice flag is "voice" and is named
\* "voice_<id>.ogg".
C22_SynthesizedName ==
    (NamelessFile /\ retval.meta # Null) =>
        (retval.meta.type # "document" =>
            /\ retval.meta.name.stem
                  = retval.meta.type \o "_" \o ToString(args.message.id)
            /\ (retval.meta.type = "voice" /\ engine = "telethon"
                  /\ args.message.media.document.mime_type = "audio/ogg")
                    => retval.meta.name.ext = ".ogg")

\* C23: two tasks that handle messages with different ids and download to
\* the same directory hand different destination paths to the transport,
\* so the two downloads never write the same file.
C23_DistinctDestinations ==
    entry = "tasks" =>
        \A i, j \in DOMAIN calls :
            (calls[i].task # calls[j].task) => calls[i].path # calls[j].path

\* the handler of the message has made its attach or send step, and for a
\* Telethon message with media the result has been copied into the post
AttachStepDone(post) ==
    IF engine = "telethon" /\ HasMedia
    THEN /\ pc = "done" /\ outcome = "returned"
         /\ post.downloaded_path = result.file_path
         /\ post.download_method = result.method
         /\ post.public_link = result.public_link
    ELSE \E i \in DOMAIN calls : calls[i].at = "handler"

\* C24: when a log chat is configured, a post is handed to save_json only
\* after the attach or send step for its message has finished and the
\* result (downloaded_path, download_method, public_link) has been copied
\* into it; no post is saved before that step.
C24_SaveAfterAttach ==
    (entry = "on_new_message" /\ args.LOG_CHAT # "") =>
        \A i \in DOMAIN saved : AttachStepDone(saved[i])

\* C30: a message the Telethon handler has parsed is eventually handed to
\* save_json, and never more than once, whatever the download and the
\* sends to the log chat did.
C30_ParsedIsSavedOnce ==
    /\ [](Len(saved) <= 1)
    /\ (entry = "on_new_message" /\ engine = "telethon" /\ hpc = "parsed")
          ~> (Len(saved) = 1)

\* C26: for the text 'Check #news at https://x.co and @durov' without
\* structured annotations the regex extraction yields hashtags ['#news'],
\* urls ['https://x.co'] and mentions ['@durov'], and after the merge with
\* the empty structured buckets the ParsedPost holds exactly these, with no
\* e-mail address and no phone number.
C26_ScenarioExtraction ==
    (entry = "_extract_regex" /\ args.text = ScenarioText) =>
        /\ retval.reg # Null =>
              /\ retval.reg.hashtags = <<W_news>>
              /\ retval.reg.urls = <<W_url>>
              /\ retval.reg.mentions = <<W_durov>>
        /\ parsed # Null =>
              /\ parsed.hashtags = <<W_news>>
              /\ parsed.urls = <<W_url>>
              /\ parsed.mentions = <<W_durov>>
              /\ parsed.emails = <<>>
              /\ parsed.phones = <<>>

C26_Witness ==
    /\ entry = "_extract_regex" /\ args.text = ScenarioText
    /\ hpc = "parsed"
    /\ parsed # Null
    /\ parsed.mentions = <<W_durov>>

=============================================================================
